---------------------------- MODULE Spec2Model ----------------------------
(***************************************************************************)
(* A model of the BotMon SDK edge middleware: the config merger, the       *)
(* remote-config client with its edge cache, the managed-rules pipeline    *)
(* and the Cloudflare fetch wrapper around the origin handler.             *)
(*                                                                         *)
(* JavaScript objects are records whose DOMAIN is the set of keys that are *)
(* present; an optional field that is absent is simply not in the DOMAIN.  *)
(* JSON null / a null reference is the record NULL.                        *)
(***************************************************************************)
EXTENDS Integers, Sequences, FiniteSets, TLC

(***************************************************************************)
(* Bounds of the model.                                                    *)
(***************************************************************************)
\* longest geo.rules list drawn for the SDK config or the remote bundle
MaxRules == 2

NULL == [null |-> TRUE]

Has(obj, key) == obj # NULL /\ key \in DOMAIN obj

\* obj?.key as a truthy object: present and not null
HasObj(obj, key) == Has(obj, key) /\ obj[key] # NULL

\* (obj?.key ?? fallback) for a scalar field
Coalesce(obj, key, fallback) == IF Has(obj, key) THEN obj[key] ELSE fallback

\* { ...base, key: value } where value may be absent
WithOpt(base, src, key) ==
    IF Has(src, key)
    THEN [k \in DOMAIN base \cup {key} |-> IF k = key THEN src[key] ELSE base[k]]
    ELSE base

(***************************************************************************)
(* Config merger (config-merger.ts)                                        *)
(***************************************************************************)
\* DEFAULTS with summaries off
DEFAULTS_NoSummary ==
    [ robotsTxt |-> [enabled |-> FALSE, mode |-> "append"],
      sitemap   |-> [enabled |-> FALSE, mode |-> "merge"],
      wellKnown |-> [enabled |-> FALSE, files |-> <<>>],
      geo       |-> [enabled |-> FALSE, injectJsonLd |-> TRUE,
                     injectSummary |-> FALSE, enrichHeadings |-> TRUE,
                     rules |-> <<>>] ]

DEFAULTS ==
    [ robotsTxt |-> [enabled |-> FALSE, mode |-> "append"],
      sitemap   |-> [enabled |-> FALSE, mode |-> "merge"],
      wellKnown |-> [enabled |-> FALSE, files |-> <<>>],
      geo       |-> [enabled |-> FALSE, injectJsonLd |-> TRUE,
                     injectSummary |-> TRUE, enrichHeadings |-> TRUE,
                     rules |-> <<>>] ]

\* the section `name` of the SDK config, or an empty object when it is absent
SdkSection(sdk, name) == IF HasObj(sdk, name) THEN sdk[name] ELSE [x \in {} |-> x]

mergeRobotsTxtConfig(sdk, remote) ==
    LET s == SdkSection(sdk, "robotsTxt")
        base == [enabled |-> Coalesce(s, "enabled", DEFAULTS.robotsTxt.enabled),
                 mode    |-> Coalesce(s, "mode", DEFAULTS.robotsTxt.mode)]
    IN  IF ~HasObj(remote, "robotsTxt") THEN base
        ELSE WithOpt([enabled |-> Coalesce(remote.robotsTxt, "enabled", base.enabled),
                      mode    |-> Coalesce(remote.robotsTxt, "mode", base.mode)],
                     remote.robotsTxt, "content")

mergeSitemapConfig(sdk, remote) ==
    LET s == SdkSection(sdk, "sitemap")
        base == [enabled |-> Coalesce(s, "enabled", DEFAULTS.sitemap.enabled),
                 mode    |-> Coalesce(s, "mode", DEFAULTS.sitemap.mode)]
    IN  IF ~HasObj(remote, "sitemap") THEN base
        ELSE WithOpt([enabled |-> Coalesce(remote.sitemap, "enabled", base.enabled),
                      mode    |-> Coalesce(remote.sitemap, "mode", base.mode)],
                     remote.sitemap, "content")

\* the SDK's wellKnown.files map ({} when absent), keeping only `mode`
SdkFiles(sdk) ==
    LET s == SdkSection(sdk, "wellKnown")
        files == IF HasObj(s, "files") THEN s.files ELSE <<>>
    IN  [name \in DOMAIN files |-> [mode |-> files[name].mode]]

\* Object.entries(remote.wellKnown.files) throws a TypeError when files is
\* undefined or null
mergeWellKnownThrows(sdk, remote) ==
    HasObj(remote, "wellKnown") /\ ~HasObj(remote.wellKnown, "files")

mergeWellKnown(sdk, remote) ==
    LET s == SdkSection(sdk, "wellKnown")
        baseEnabled == Coalesce(s, "enabled", DEFAULTS.wellKnown.enabled)
        sdkFiles == SdkFiles(sdk)
    IN  IF ~HasObj(remote, "wellKnown")
        THEN [enabled |-> baseEnabled, files |-> sdkFiles]
        ELSE LET rfiles == remote.wellKnown.files
                 mergedFiles ==
                   [name \in DOMAIN sdkFiles \cup DOMAIN rfiles |->
                      IF name \in DOMAIN rfiles
                      THEN WithOpt(
                             [mode |-> Coalesce(rfiles[name], "mode",
                                         IF name \in DOMAIN sdkFiles
                                         THEN sdkFiles[name].mode ELSE "replace")],
                             rfiles[name], "content")
                      ELSE sdkFiles[name]]
             IN  [enabled |-> Coalesce(remote.wellKnown, "enabled", baseEnabled),
                  files   |-> mergedFiles]

\* index of the last rule of `rules` with the given urlPattern, 0 when none
\* (Map.set keeps the last rule stored under a key)
LastWithPattern(rules, pattern) ==
    LET hits == {i \in 1..Len(rules) : rules[i].urlPattern = pattern}
    IN  IF hits = {} THEN 0 ELSE CHOOSE i \in hits : \A j \in hits : j <= i

\* a merge that puts the dashboard-only rules in front of the SDK rules
mergeGeoRules_RemoteFirst(sdkRules, dashboardRules) ==
    LET override(r) == LastWithPattern(dashboardRules, r.urlPattern)
        fromSdk == [i \in 1..Len(sdkRules) |->
                      IF override(sdkRules[i]) # 0
                      THEN dashboardRules[override(sdkRules[i])]
                      ELSE sdkRules[i]]
        usedPatterns == {sdkRules[i].urlPattern : i \in
                           {j \in 1..Len(sdkRules) : override(sdkRules[j]) # 0}}
        dashboardOnly == SelectSeq(dashboardRules,
                                   LAMBDA r : r.urlPattern \notin usedPatterns)
    IN  dashboardOnly \o fromSdk

mergeGeoRules(sdkRules, dashboardRules) ==
    LET override(r) == LastWithPattern(dashboardRules, r.urlPattern)
        fromSdk == [i \in 1..Len(sdkRules) |->
                      IF override(sdkRules[i]) # 0
                      THEN dashboardRules[override(sdkRules[i])]
                      ELSE sdkRules[i]]
        usedPatterns == {sdkRules[i].urlPattern : i \in
                           {j \in 1..Len(sdkRules) : override(sdkRules[j]) # 0}}
        dashboardOnly == SelectSeq(dashboardRules,
                                   LAMBDA r : r.urlPattern \notin usedPatterns)
    IN  fromSdk \o dashboardOnly

mergeGeo(sdk, remote) ==
    LET s == SdkSection(sdk, "geo")
        base == [enabled        |-> Coalesce(s, "enabled", DEFAULTS.geo.enabled),
                 injectJsonLd   |-> Coalesce(s, "injectJsonLd", DEFAULTS.geo.injectJsonLd),
                 injectSummary  |-> Coalesce(s, "injectSummary", DEFAULTS.geo.injectSummary),
                 enrichHeadings |-> Coalesce(s, "enrichHeadings", DEFAULTS.geo.enrichHeadings),
                 rules          |-> Coalesce(s, "rules", <<>>)]
    IN  IF ~HasObj(remote, "geo") THEN base
        ELSE [enabled        |-> Coalesce(remote.geo, "enabled", base.enabled),
              injectJsonLd   |-> Coalesce(remote.geo, "injectJsonLd", base.injectJsonLd),
              injectSummary  |-> Coalesce(remote.geo, "injectSummary", base.injectSummary),
              enrichHeadings |-> Coalesce(remote.geo, "enrichHeadings", base.enrichHeadings),
              rules          |-> mergeGeoRules(base.rules,
                                               Coalesce(remote.geo, "rules", <<>>))]

mergeConfigThrows(sdk, remote) == mergeWellKnownThrows(sdk, remote)

mergeConfig(sdk, remote) ==
    [ robotsTxt |-> mergeRobotsTxtConfig(sdk, remote),
      sitemap   |-> mergeSitemapConfig(sdk, remote),
      wellKnown |-> mergeWellKnown(sdk, remote),
      geo       |-> mergeGeo(sdk, remote) ]


(***************************************************************************)
(* Inputs of the config merger                                             *)
(***************************************************************************)
EmptyObject == [x \in {} |-> x]

\* GEO page rules (GeoPageRule); RuleP2 has the urlPattern of RuleP1
\* (a urlPattern such as "/products/*" is the sequence of its segments)
RuleP1 == [urlPattern |-> <<"products", "*">>, pageType |-> "product"]
RuleP2 == [urlPattern |-> <<"products", "*">>, summary |-> "S"]
RuleB  == [urlPattern |-> <<"blog", "**">>, disabled |-> TRUE]
RulePool == {RuleP1, RuleP2, RuleB}

\* the rule lists of length at most MaxRules that repeat no rule
RuleLists ==
    UNION { {l \in [1..n -> RulePool] : \A i, j \in 1..n : l[i] = l[j] => i = j} :
            n \in 0..MaxRules }

\* an object with the fields of `full` restricted to the keys `keys`
Pick(full, keys) == [k \in keys |-> full[k]]

SdkRobotsOptions ==
    { [enabled |-> TRUE, mode |-> "replace"], [enabled |-> FALSE, mode |-> "merge"] }
SdkSitemapOptions == { [enabled |-> TRUE, mode |-> "append"] }
SdkWellKnownOptions ==
    { [enabled |-> TRUE,
       files |-> [f \in {"llms.txt", "security.txt"} |->
                    [mode |-> IF f = "llms.txt" THEN "replace" ELSE "disabled"]]],
      [enabled |-> TRUE] }
SdkGeoOptions ==
    { [enabled |-> TRUE, injectJsonLd |-> FALSE, injectSummary |-> FALSE,
       enrichHeadings |-> FALSE, rules |-> rules] : rules \in RuleLists }

\* ManagedRulesConfig values: every section is optional
SdkConfigsOf(robots, sitemap, wellKnown, geo) ==
    UNION { { Pick([robotsTxt |-> r, sitemap |-> s, wellKnown |-> w, geo |-> g], keys) :
                r \in robots, s \in sitemap, w \in wellKnown, g \in geo } :
            keys \in SUBSET {"robotsTxt", "sitemap", "wellKnown", "geo"} }

SdkConfigs == SdkConfigsOf(SdkRobotsOptions, SdkSitemapOptions, SdkWellKnownOptions, SdkGeoOptions)

RemoteRobotsOptions ==
    { [enabled |-> TRUE, mode |-> "replace", content |-> "managed"],
      [content |-> "managed"],
      [mode |-> "disabled"],
      NULL }
RemoteSitemapOptions == { [enabled |-> FALSE, mode |-> "replace", content |-> "managed"] }
RemoteWellKnownOptions ==
    { [enabled |-> TRUE,
       files |-> [f \in {"llms.txt"} |-> [content |-> "managed"]]],
      [enabled |-> FALSE,
       files |-> [f \in {"security.txt", "ai-plugin.json"} |->
                    IF f = "security.txt" THEN [mode |-> "replace", content |-> "managed"]
                    ELSE [mode |-> "disabled"]]],
      [enabled |-> TRUE] }
RemoteGeoOptions ==
    { [enabled |-> TRUE], [injectJsonLd |-> TRUE, enrichHeadings |-> TRUE] }
    \cup { [enabled |-> FALSE, injectSummary |-> TRUE, rules |-> rules] :
             rules \in RuleLists }

\* RemoteConfigBundle values as parsed from the endpoint's JSON, or null
RemoteConfigs ==
    {NULL} \cup
    UNION { { Pick([robotsTxt |-> r, sitemap |-> s, wellKnown |-> w, geo |-> g], keys) :
                r \in RemoteRobotsOptions, s \in RemoteSitemapOptions,
                w \in RemoteWellKnownOptions, g \in RemoteGeoOptions } :
            keys \in SUBSET {"robotsTxt", "sitemap", "wellKnown", "geo"} }

(***************************************************************************)
(* Remote config API client (api-client.ts) and the edge cache             *)
(***************************************************************************)
\* latest instant of the clock of the fetchConfig specification
MaxTime == 2
\* largest cacheTtlSeconds passed to fetchConfig
MaxTtl == 2

Hostnames == {"a.example", "b.example"}
ApiKeys == {"key1", "key2"}
Ttls == 1..MaxTtl
ApiBaseUrl == "https://app.botmon.io/api"

\* the remote bundles the config endpoint may answer with
BundleA == [robotsTxt |-> [enabled |-> TRUE, mode |-> "replace", content |-> "managed"]]
BundleB == [geo |-> [enabled |-> TRUE]]
Bundles == {BundleA, BundleB}

\* the callers of fetchConfig that share one edge cache: two of them, which
\* differ in the API key, in the hostname, or in both
ClientPairs ==
    { {[hostname |-> "a.example", apiKey |-> "key1"], [hostname |-> "a.example", apiKey |-> "key2"]},
      {[hostname |-> "a.example", apiKey |-> "key1"], [hostname |-> "b.example", apiKey |-> "key1"]},
      {[hostname |-> "a.example", apiKey |-> "key1"], [hostname |-> "b.example", apiKey |-> "key2"]} }

\* `${apiBaseUrl}/v1/sdk-config/${encodeURIComponent(hostname)}`
cacheUrl(apiBaseUrl, hostname) == <<apiBaseUrl, "/v1/sdk-config/", hostname>>

\* new Request(url, { headers: { "X-API-Key": apiKey } })
cacheKey(url, apiKey) == [url |-> url, apiKey |-> apiKey]

\* JSON.stringify / Response.json(): a value that was parsed from JSON is
\* written out and read back as the same value; the text of JSON null is
\* the sentinel "null"
JSONstringify(value) == [text |-> value]
NullText == [text |-> NULL]
JSONparse(text) == text.text

\* the responses the config endpoint can give: a status with a JSON body, a
\* 2xx status whose body is not JSON, or a network failure (fetch rejects)
NetOutcomes ==
    [kind : {"json"}, status : {200}, body : Bundles]
    \cup [kind : {"json"}, status : {404, 500}, body : {NULL}]
    \cup [kind : {"notjson"}, status : {200}, body : {NULL}]
    \cup [kind : {"reject"}, status : {0}, body : {NULL}]

ResponseOk(status) == status \in 200..299

\* how the Cache API behaves during one call: working, absent
\* (caches.default missing), cache.match / the cached body throwing, or
\* cache.put throwing
CacheModes == {"ok", "unavailable", "matchThrows", "putThrows"}
CacheReadFails(mode) == mode \in {"unavailable", "matchThrows"}
CacheWriteFails(mode) == mode \in {"unavailable", "putThrows"}

\* whether a stored entry answers a lookup with key request `req`: the URL
\* must be equal, and the X-API-Key header too when the cache distinguishes
\* request headers (`sensitive`)
KeyMatches(entry, req, sensitive) ==
    entry.url = req.url /\ (sensitive => entry.apiKey = req.apiKey)

EntryFresh(entry, t) == t < entry.storedAt + entry.maxAge

\* cache.match(cacheKey)
CacheMatch(c, t, sensitive, req) ==
    {e \in c : KeyMatches(e, req, sensitive) /\ EntryFresh(e, t)}

\* cache.put(cacheKey, response) with Cache-Control max-age
CachePut(c, t, sensitive, req, text, maxAge, from) ==
    {e \in c : ~KeyMatches(e, req, sensitive)}
    \cup {[url |-> req.url, apiKey |-> req.apiKey, text |-> text,
           maxAge |-> maxAge, storedAt |-> t, from |-> from]}

\* cacheResponse(): best-effort store
cacheResponse(c, t, sensitive, req, text, maxAge, from, mode) ==
    IF CacheWriteFails(mode) THEN c
    ELSE CachePut(c, t, sensitive, req, text, maxAge, from)

\* fetchConfig variants that treat an answer the wrong way: a 404 that is
\* not cached, a failure that is cached as the null sentinel, a bundle that
\* is cached as the null sentinel
NotFoundUncached(c, t, sensitive, req, ttl, mode, net) ==
    [ret |-> NULL, cache |-> c, requests |-> 1]
FailureCached(c, t, sensitive, req, ttl, mode, net) ==
    [ret |-> NULL,
     cache |-> cacheResponse(c, t, sensitive, req, NullText, ttl, net, mode),
     requests |-> 1]
SuccessCachedAsNull(c, t, sensitive, req, ttl, mode, net) ==
    [ret |-> net.body,
     cache |-> cacheResponse(c, t, sensitive, req, NullText, ttl, net, mode),
     requests |-> 1]

\* response.status === 404: the null sentinel is cached, null is returned
OnNotFound(c, t, sensitive, req, ttl, mode, net) ==
    [ret |-> NULL,
     cache |-> cacheResponse(c, t, sensitive, req, NullText, ttl, net, mode),
     requests |-> 1]

\* !response.ok, a rejected fetch or a body that is not JSON: null is
\* returned and nothing is cached
OnFailure(c, t, sensitive, req, ttl, mode, net) ==
    [ret |-> NULL, cache |-> c, requests |-> 1]

\* a 2xx answer: the parsed body is cached as JSON text and returned
OnSuccess(c, t, sensitive, req, ttl, mode, net) ==
    [ret |-> net.body,
     cache |-> cacheResponse(c, t, sensitive, req, JSONstringify(net.body),
                             ttl, net, mode),
     requests |-> 1]

\* a fetchConfig whose cache lookup is not guarded: a failing lookup ends the
\* call with null before the network is asked
fetchConfig_ReadUnguarded(c, t, sensitive, hostname, apiKey, apiBaseUrl, ttl, mode, net) ==
    LET req == cacheKey(cacheUrl(apiBaseUrl, hostname), apiKey)
        hits == CacheMatch(c, t, sensitive, req)
    IN  IF CacheReadFails(mode)
        THEN [ret |-> NULL, cache |-> c, requests |-> 0]
        ELSE IF hits # {}
        THEN [ret |-> JSONparse((CHOOSE e \in hits : TRUE).text),
              cache |-> c, requests |-> 0]
        ELSE IF net.kind = "reject"
        THEN OnFailure(c, t, sensitive, req, ttl, mode, net)
        ELSE IF net.status = 404
        THEN OnNotFound(c, t, sensitive, req, ttl, mode, net)
        ELSE IF ~ResponseOk(net.status) \/ net.kind = "notjson"
        THEN OnFailure(c, t, sensitive, req, ttl, mode, net)
        ELSE OnSuccess(c, t, sensitive, req, ttl, mode, net)

\* fetchConfig(hostname, apiKey, apiBaseUrl, cacheTtlSeconds) run against
\* cache contents c at time t, with the cache behaving as `mode` and the
\* endpoint answering `net`.  Gives the value returned, the cache afterwards
\* and the number of network requests issued.
fetchConfig(c, t, sensitive, hostname, apiKey, apiBaseUrl, ttl, mode, net) ==
    LET req == cacheKey(cacheUrl(apiBaseUrl, hostname), apiKey)
        hits == IF CacheReadFails(mode) THEN {} ELSE CacheMatch(c, t, sensitive, req)
    IN  IF hits # {}
        THEN [ret |-> JSONparse((CHOOSE e \in hits : TRUE).text),
              cache |-> c, requests |-> 0]
        ELSE IF net.kind = "reject"
        THEN OnFailure(c, t, sensitive, req, ttl, mode, net)
        ELSE IF net.status = 404
        THEN OnNotFound(c, t, sensitive, req, ttl, mode, net)
        ELSE IF ~ResponseOk(net.status) \/ net.kind = "notjson"
        THEN OnFailure(c, t, sensitive, req, ttl, mode, net)
        ELSE OnSuccess(c, t, sensitive, req, ttl, mode, net)

(***************************************************************************)
(* GEO engine (geo/index.ts, page-type-detector.ts) on abstract documents  *)
(***************************************************************************)
\* A URL path is the sequence of its segments: "/products/widget" is
\* <<"products", "widget">>.

\* globToRegex(pattern).test(pathname) for patterns whose wildcards are whole
\* segments: `*` is [^/]+ (one non-empty segment), a `**` is .* (any rest,
\* here the rest of the path), any other segment matches itself; anchored at
\* both ends
RECURSIVE GlobMatches(_, _)
GlobMatches(pattern, path) ==
    IF pattern = <<>> THEN path = <<>>
    ELSE IF Head(pattern) = "**" /\ Len(pattern) = 1 THEN path # <<>>
    ELSE IF path = <<>> THEN FALSE
    ELSE /\ \/ Head(pattern) = "*" /\ Head(path) # ""
            \/ Head(pattern) = Head(path)
         /\ GlobMatches(Tail(pattern), Tail(path))

\* a urlPattern that the remote JSON gave as a number instead of a string
NumericPattern == <<"#42">>

\* index of the first rule in list order whose urlPattern matches, 0 if none
FirstMatch(pathname, rules) ==
    LET hits == {i \in 1..Len(rules) : /\ rules[i].urlPattern # NumericPattern
                                       /\ GlobMatches(rules[i].urlPattern, pathname)}
    IN  IF hits = {} THEN 0 ELSE CHOOSE i \in hits : \A j \in hits : i <= j

\* globToRegex(rule.urlPattern) throws a TypeError (pattern.replace is not a
\* function) when the loop reaches a rule whose urlPattern is not a string
findMatchingRuleThrows(pathname, rules) ==
    \E i \in 1..Len(rules) :
        /\ rules[i].urlPattern = NumericPattern
        /\ FirstMatch(pathname, rules) \in {0} \cup (i + 1)..Len(rules)

\* findMatchingRule: the first rule in list order whose urlPattern matches
findMatchingRule(pathname, rules) ==
    IF FirstMatch(pathname, rules) = 0 THEN NULL
    ELSE rules[FirstMatch(pathname, rules)]

\* detectFromUrl on the paths of the model: the first URL_PATTERNS entry
\* whose regex matches (/\/products?\//, /\/blog\//, ...)
detectFromUrl(pathname) ==
    IF Len(pathname) >= 2 /\ Head(pathname) \in {"products", "product"} THEN "product"
    ELSE IF Len(pathname) >= 2 /\ Head(pathname) = "blog" THEN "article"
    ELSE "none"

\* doc.metaType and doc.heuristicType are what the regular expressions of
\* detectFromMeta / detectFromContent find in the document ("none": nothing)
detectFromMeta(doc) ==
    IF doc.metaType = "none" THEN NULL
    ELSE [pageType |-> doc.metaType, confidence |-> "high", source |-> "meta-tag"]

detectFromContent(doc) ==
    IF doc.heuristicType = "none" THEN NULL
    ELSE [pageType |-> doc.heuristicType,
          confidence |-> IF doc.heuristicType \in {"faq", "pricing"} THEN "medium" ELSE "low",
          source |-> "content-heuristic"]

\* detectPageType that consults the URL table before the rules
detectPageTypeResult_UrlFirst(pathname, doc, rules) ==
    LET matchingRule == findMatchingRule(pathname, rules)
    IN  IF detectFromUrl(pathname) # "none"
        THEN [pageType |-> detectFromUrl(pathname), confidence |-> "medium",
              source |-> "url-pattern"]
        ELSE IF Has(matchingRule, "pageType")
        THEN [pageType |-> matchingRule.pageType, confidence |-> "high", source |-> "geo-rule"]
        ELSE IF detectFromMeta(doc) # NULL THEN detectFromMeta(doc)
        ELSE IF detectFromContent(doc) # NULL THEN detectFromContent(doc)
        ELSE [pageType |-> "generic", confidence |-> "low", source |-> "default"]

\* detectPageType(pathname, html, rules): { pageType, confidence, source }
detectPageTypeResult(pathname, doc, rules) ==
    LET matchingRule == findMatchingRule(pathname, rules)
    IN  IF Has(matchingRule, "pageType")
        THEN [pageType |-> matchingRule.pageType, confidence |-> "high", source |-> "geo-rule"]
        ELSE IF detectFromUrl(pathname) # "none"
        THEN [pageType |-> detectFromUrl(pathname), confidence |-> "medium",
              source |-> "url-pattern"]
        ELSE IF detectFromMeta(doc) # NULL THEN detectFromMeta(doc)
        ELSE IF detectFromContent(doc) # NULL THEN detectFromContent(doc)
        ELSE [pageType |-> "generic", confidence |-> "low", source |-> "default"]

\* detectPageType(pathname, html, rules).pageType
detectPageType(pathname, doc, rules) == detectPageTypeResult(pathname, doc, rules).pageType

\* Documents an origin can serve.  hasHead: the text contains "</head>";
\* summary: extractSummary finds one in the text; headings: there are
\* headings without the data-botmon-section marker.
\* NoDoc is the empty string.
NoDoc == [name |-> "", hasHead |-> FALSE, summary |-> FALSE, headings |-> FALSE,
          metaType |-> "none", heuristicType |-> "none"]
RichDoc == [name |-> "rich", hasHead |-> TRUE, summary |-> TRUE, headings |-> TRUE,
            metaType |-> "article", heuristicType |-> "none"]

ContentTypeIncludes(contentType, what) ==
    CASE what = "text/html"     -> contentType = "text/html; charset=utf-8"
      [] what = "text/plain"    -> contentType = "text/plain; charset=utf-8"
      [] what = "text/markdown" -> contentType = "text/markdown"
      [] what = "xml"           -> contentType = "application/xml"
      [] OTHER                  -> FALSE

\* new Response(body, { status, headers }).  `id` is the identity of the
\* Response object (0 until the step that creates it numbers it); `by` names
\* the code that constructed it.
NewResponse(by, status, contentType, body, headers) ==
    [id |-> 0, by |-> by, status |-> status, contentType |-> contentType,
     body |-> body, headers |-> headers]

\* GEO headers without the page type
GeoHeaders_NoPageType(pageType) == {<<"X-BotMon-GEO", "applied">>}

GeoHeaders(pageType) ==
    {<<"X-BotMon-GEO", "applied">>, <<"X-BotMon-PageType", pageType>>}

RuleDisabled(rule) == Has(rule, "disabled") /\ rule.disabled

\* an applyHtmlGeo that injects without looking for </head>
applyHtmlGeo_NoHeadCheck(response, pathname, config) ==
    LET doc == response.body.doc
        matchingRule == findMatchingRule(pathname, config.rules)
        pageType == detectPageType(pathname, doc, config.rules)
        summary == Has(matchingRule, "summary") \/ doc.summary
        edits == (IF config.injectJsonLd THEN {"json-ld"} ELSE {})
                 \cup (IF config.injectSummary /\ summary
                       THEN {"summary-meta"} ELSE {})
                 \cup (IF config.enrichHeadings /\ doc.headings
                       THEN {"headings"} ELSE {})
        modified == edits # {}
    IN  IF RuleDisabled(matchingRule)
        THEN [modified |-> FALSE, pageType |-> "none", read |-> TRUE,
              response |-> NewResponse("geo", response.status, response.contentType,
                                       response.body, response.headers)]
        ELSE [modified |-> modified, pageType |-> pageType, read |-> TRUE,
              response |-> NewResponse("geo", response.status, response.contentType,
                               [response.body EXCEPT !.edits = edits],
                               IF modified THEN response.headers \cup GeoHeaders(pageType)
                               ELSE response.headers)]

\* applyHtmlGeo: reads the body, then gives { modified, response, pageType }
applyHtmlGeo(response, pathname, config) ==
    LET doc == response.body.doc
        matchingRule == findMatchingRule(pathname, config.rules)
        pageType == detectPageType(pathname, doc, config.rules)
        summary == Has(matchingRule, "summary") \/ doc.summary
        edits == (IF config.injectJsonLd /\ doc.hasHead THEN {"json-ld"} ELSE {})
                 \cup (IF config.injectSummary /\ summary /\ doc.hasHead
                       THEN {"summary-meta"} ELSE {})
                 \cup (IF config.enrichHeadings /\ doc.headings
                       THEN {"headings"} ELSE {})
        modified == edits # {}
    IN  IF RuleDisabled(matchingRule)
        THEN [modified |-> FALSE, pageType |-> "none", read |-> TRUE,
              response |-> NewResponse("geo", response.status, response.contentType,
                                       response.body, response.headers)]
        ELSE [modified |-> modified, pageType |-> pageType, read |-> TRUE,
              response |-> NewResponse("geo", response.status, response.contentType,
                               [response.body EXCEPT !.edits = edits],
                               IF modified THEN response.headers \cup GeoHeaders(pageType)
                               ELSE response.headers)]

\* an applyTextGeo whose frontmatter has no page_type line
applyTextGeo_NoPageTypeLine(response, pathname, config) ==
    LET matchingRule == findMatchingRule(pathname, config.rules)
        pageType == detectPageType(pathname, NoDoc, config.rules)
        lines == (IF config.injectSummary /\ Has(matchingRule, "summary")
                  THEN {"botmon:summary"} ELSE {})
                 \cup (IF config.injectJsonLd THEN {"botmon:schema"} ELSE {})
    IN  IF RuleDisabled(matchingRule)
        THEN [modified |-> FALSE, pageType |-> "none", read |-> TRUE,
              response |-> NewResponse("geo", response.status, response.contentType,
                                       response.body, response.headers)]
        ELSE IF lines = {}
        THEN [modified |-> FALSE, pageType |-> "none", read |-> TRUE,
              response |-> response]
        ELSE [modified |-> TRUE, pageType |-> pageType, read |-> TRUE,
              response |-> NewResponse("geo", response.status, response.contentType,
                               [response.body EXCEPT !.edits = lines],
                               response.headers \cup GeoHeaders(pageType))]

\* applyTextGeo: reads the body and prepends a frontmatter block
applyTextGeo(response, pathname, config) ==
    LET matchingRule == findMatchingRule(pathname, config.rules)
        pageType == detectPageType(pathname, NoDoc, config.rules)
        lines == (IF config.injectSummary /\ Has(matchingRule, "summary")
                  THEN {"botmon:summary"} ELSE {})
                 \cup {"botmon:page_type"}
                 \cup (IF config.injectJsonLd THEN {"botmon:schema"} ELSE {})
    IN  IF RuleDisabled(matchingRule)
        THEN [modified |-> FALSE, pageType |-> "none", read |-> TRUE,
              response |-> NewResponse("geo", response.status, response.contentType,
                                       response.body, response.headers)]
        ELSE IF lines = {}
        THEN [modified |-> FALSE, pageType |-> "none", read |-> TRUE,
              response |-> response]
        ELSE [modified |-> TRUE, pageType |-> pageType, read |-> TRUE,
              response |-> NewResponse("geo", response.status, response.contentType,
                               [response.body EXCEPT !.edits = lines],
                               response.headers \cup GeoHeaders(pageType))]

\* Whether applyGeoOptimization throws: only findMatchingRule can, and both
\* applyHtmlGeo and applyTextGeo call it after `await response.text()`
applyGeoThrows(response, pathname, config) ==
    /\ \/ ContentTypeIncludes(response.contentType, "text/html")
       \/ ContentTypeIncludes(response.contentType, "text/plain")
       \/ ContentTypeIncludes(response.contentType, "text/markdown")
    /\ findMatchingRuleThrows(pathname, config.rules)

\* a dispatch that sends every type that is not HTML to applyTextGeo
applyGeoOptimization_TextForAll(response, pathname, config) ==
    IF ContentTypeIncludes(response.contentType, "text/html")
    THEN applyHtmlGeo(response, pathname, config)
    ELSE applyTextGeo(response, pathname, config)

\* applyGeoOptimization: dispatch on the Content-Type; any other type is
\* returned as it is, unread
applyGeoOptimization(response, pathname, config) ==
    IF ContentTypeIncludes(response.contentType, "text/html")
    THEN applyHtmlGeo(response, pathname, config)
    ELSE IF \/ ContentTypeIncludes(response.contentType, "text/plain")
            \/ ContentTypeIncludes(response.contentType, "text/markdown")
    THEN applyTextGeo(response, pathname, config)
    ELSE [modified |-> FALSE, pageType |-> "none", read |-> FALSE,
          response |-> response]

(***************************************************************************)
(* Requests, the origin handler and AI-agent detection                     *)
(***************************************************************************)
Paths ==
    { <<"robots.txt">>, <<"sitemap.xml">>, <<".well-known", "llms.txt">>,
      <<".well-known", "constructor">>,
      <<"products", "widget">>, <<"blog", "post">>, <<"about">> }

\* a User-Agent header is the sequence of its words; <<>> is a missing header
UserAgents == { <<"mozilla", "gptbot">>, <<"mozilla", "chrome">>, <<>> }

Requests == [hostname : {"a.example"}, pathname : Paths, userAgent : UserAgents]

\* String.prototype.toLowerCase on the words of user agents and patterns
LowerCase(word) ==
    CASE word \in {"GPTBot", "GPTBOT"}  -> "gptbot"
      [] word = "ChatGPT-User"          -> "chatgpt-user"
      [] word = "OAI-SearchBot"         -> "oai-searchbot"
      [] word \in {"Bingbot", "BINGBOT"} -> "bingbot"
      [] word = "Mozilla"               -> "mozilla"
      [] word = "Googlebot"             -> "googlebot"
      [] OTHER                          -> word

\* AI_BOT_DEFINITIONS: the entries of OpenAI and Microsoft, in table order
AI_BOT_DEFINITIONS ==
    << [pattern |-> "GPTBot", name |-> "GPTBot", category |-> "ai-crawler",
        tags |-> <<"openai", "llm-training">>],
       [pattern |-> "ChatGPT-User", name |-> "ChatGPT-User", category |-> "ai-agent",
        tags |-> <<"openai", "conversational">>],
       [pattern |-> "OAI-SearchBot", name |-> "OAI-SearchBot", category |-> "ai-search",
        tags |-> <<"openai", "search">>],
       [pattern |-> "Bingbot", name |-> "Bingbot", category |-> "ai-search",
        tags |-> <<"microsoft", "search">>] >>

\* uaLower.includes(bot.pattern.toLowerCase()): a User-Agent header is the
\* sequence of its words, and it includes a pattern when a word is the pattern
Includes(words, pattern) == \E k \in 1..Len(words) : words[k] = pattern

\* a detector that compares without lower-casing
detectAiBot_CaseSensitive(userAgent) ==
    LET hits == {i \in 1..Len(AI_BOT_DEFINITIONS) :
                   Includes(userAgent, AI_BOT_DEFINITIONS[i].pattern)}
        bot == AI_BOT_DEFINITIONS[CHOOSE i \in hits : \A j \in hits : i <= j]
    IN  IF userAgent = <<>> \/ hits = {} THEN [isAiBot |-> FALSE]
        ELSE [isAiBot |-> TRUE, botName |-> bot.name,
              botCategory |-> bot.category, botTags |-> bot.tags]

detectAiBot(userAgent) ==
    LET uaLower == [k \in 1..Len(userAgent) |-> LowerCase(userAgent[k])]
        hits == {i \in 1..Len(AI_BOT_DEFINITIONS) :
                   Includes(uaLower, LowerCase(AI_BOT_DEFINITIONS[i].pattern))}
        bot == AI_BOT_DEFINITIONS[CHOOSE i \in hits : \A j \in hits : i <= j]
    IN  IF userAgent = <<>> \/ hits = {} THEN [isAiBot |-> FALSE]
        ELSE [isAiBot |-> TRUE, botName |-> bot.name,
              botCategory |-> bot.category, botTags |-> bot.tags]

\* buildContext(request, response, env, ctx)
buildContext(request, response) ==
    [request |-> request, response |-> response,
     trafficType |-> IF detectAiBot(request.userAgent).isAiBot THEN "good_bot" ELSE "human",
     url |-> [hostname |-> request.hostname, pathname |-> request.pathname],
     isAiBot |-> detectAiBot(request.userAgent).isAiBot,
     pageType |-> "none"]

TextDoc == [NoDoc EXCEPT !.name = "text"]
BareDoc == [NoDoc EXCEPT !.name = "bare"]
Body(doc) == [doc |-> doc, edits |-> {}]

\* what one invocation of the customer's fetch handler can do: return one of
\* these responses, throw synchronously, or return a promise that rejects
OriginKinds == {"rich", "bare", "text", "xml", "json", "missing"}
HandlerFailures == {"throw", "reject"}

OriginKindsFor(pathname) ==
    IF pathname = <<"robots.txt">> THEN {"text", "missing"}
    ELSE IF pathname = <<"sitemap.xml">> THEN {"xml", "missing"}
    ELSE IF Head(pathname) = ".well-known" THEN {"text", "missing"}
    ELSE {"rich", "bare", "text", "json"}

HandlerOutcomes(pathname) == OriginKindsFor(pathname) \cup HandlerFailures

OriginResponse(kind) ==
    CASE kind = "rich" -> NewResponse("origin", 200, "text/html; charset=utf-8", Body(RichDoc), {})
      [] kind = "bare" -> NewResponse("origin", 200, "text/html; charset=utf-8", Body(BareDoc), {})
      [] kind = "text" -> NewResponse("origin", 200, "text/plain; charset=utf-8", Body(TextDoc), {})
      [] kind = "xml"  -> NewResponse("origin", 200, "application/xml", Body(TextDoc), {})
      [] kind = "json" -> NewResponse("origin", 200, "application/json", Body(TextDoc), {})
      [] OTHER         -> NewResponse("origin", 404, "text/html; charset=utf-8", Body(BareDoc), {})

\* the Response object number `id`
Numbered(response, id) == [response EXCEPT !.id = id]

(***************************************************************************)
(* Managed-file handlers (robots-txt.ts, sitemap.ts, well-known.ts)        *)
(***************************************************************************)
\* a `content` that the remote JSON gave as a number instead of a string
NumericContent == "#42"

\* headers without X-BotMon-Mode
ManagedHeaders_NoMode(rule, mode) == {<<"X-BotMon-Managed", rule>>}

ManagedHeaders(rule, mode) ==
    {<<"X-BotMon-Managed", rule>>, <<"X-BotMon-Mode", mode>>}

ManagedBody(content, origin, how) == [managed |-> content, origin |-> origin, how |-> how]

\* an origin fetch that does not look at the content type
fetchOriginBody_AnyType(outcome, wanted) ==
    IF outcome \in HandlerFailures THEN [doc |-> NoDoc, edits |-> {}]
    ELSE IF ~ResponseOk(OriginResponse(outcome).status) THEN [doc |-> NoDoc, edits |-> {}]
    ELSE OriginResponse(outcome).body

\* fetchOriginText / fetchOriginXml: the origin's body when the origin
\* answered ok with the wanted content type, "" otherwise (also when the
\* handler failed)
fetchOriginBody(outcome, wanted) ==
    IF outcome \in HandlerFailures THEN Body(NoDoc)
    ELSE IF ~ResponseOk(OriginResponse(outcome).status) THEN Body(NoDoc)
    ELSE IF ~ContentTypeIncludes(OriginResponse(outcome).contentType, wanted) THEN Body(NoDoc)
    ELSE OriginResponse(outcome).body

\* a handleRobotsTxt that serves the merged file with the origin's status
handleRobotsTxt_OriginStatus(context, config, outcome) ==
    LET botmonContent == Coalesce(config, "content", "")
        originText == fetchOriginBody(outcome, "text/plain")
        status == IF outcome \in HandlerFailures THEN 200
                  ELSE OriginResponse(outcome).status
        served(how) == NewResponse("robots-txt", status, "text/plain; charset=utf-8",
                                   ManagedBody(botmonContent, originText, how),
                                   ManagedHeaders("robots-txt", how))
    IN  CASE config.mode = "replace" ->
               [throws |-> FALSE, fetched |-> FALSE,
                response |-> NewResponse("robots-txt", 200, "text/plain; charset=utf-8",
                                         ManagedBody(botmonContent, Body(NoDoc), "replace"),
                                         ManagedHeaders("robots-txt", "replace"))]
          [] config.mode \in {"append", "merge"} ->
               [throws |-> botmonContent = NumericContent, fetched |-> TRUE,
                response |-> served(config.mode)]
          [] OTHER ->
               [throws |-> FALSE, fetched |-> FALSE, response |-> context.response]

\* handleRobotsTxt(context, config, fetchOrigin), with `outcome` what the
\* origin handler does if it is called.  throws: appendRobotsTxt /
\* parseRobotsTxt call .trim() / .split() on the content.
handleRobotsTxt(context, config, outcome) ==
    LET botmonContent == Coalesce(config, "content", "")
        originText == fetchOriginBody(outcome, "text/plain")
        served(how) == NewResponse("robots-txt", 200, "text/plain; charset=utf-8",
                                   ManagedBody(botmonContent, originText, how),
                                   ManagedHeaders("robots-txt", how))
    IN  CASE config.mode = "replace" ->
               [throws |-> FALSE, fetched |-> FALSE,
                response |-> NewResponse("robots-txt", 200, "text/plain; charset=utf-8",
                                         ManagedBody(botmonContent, Body(NoDoc), "replace"),
                                         ManagedHeaders("robots-txt", "replace"))]
          [] config.mode \in {"append", "merge"} ->
               [throws |-> botmonContent = NumericContent, fetched |-> TRUE,
                response |-> served(config.mode)]
          [] OTHER ->
               [throws |-> FALSE, fetched |-> FALSE, response |-> context.response]

\* handleSitemap(context, config, fetchOrigin): append is served as merge
handleSitemap(context, config, outcome) ==
    LET botmonContent == Coalesce(config, "content", "")
        originXml == fetchOriginBody(outcome, "xml")
    IN  CASE config.mode = "replace" ->
               [throws |-> FALSE, fetched |-> FALSE,
                response |-> NewResponse("sitemap", 200, "application/xml; charset=utf-8",
                                         ManagedBody(botmonContent, Body(NoDoc), "replace"),
                                         ManagedHeaders("sitemap", "replace"))]
          [] config.mode \in {"append", "merge"} ->
               [throws |-> FALSE, fetched |-> TRUE,
                response |-> NewResponse("sitemap", 200, "application/xml; charset=utf-8",
                                         ManagedBody(botmonContent, originXml, "merge"),
                                         ManagedHeaders("sitemap", "merge"))]
          [] OTHER ->
               [throws |-> FALSE, fetched |-> FALSE, response |-> context.response]

\* inferContentType(filename) for the file names of the model
inferContentType(filename) ==
    IF filename = "ai-plugin.json" THEN "application/json; charset=utf-8"
    ELSE "text/plain; charset=utf-8"

\* handleWellKnown(filename, config)
handleWellKnown(filename, config) ==
    IF Coalesce(config, "mode", "") = "disabled" \/ Coalesce(config, "content", "") = ""
    THEN NewResponse("well-known", 404, "text/plain;charset=UTF-8",
                     ManagedBody("Not Found", Body(NoDoc), "none"), {})
    ELSE NewResponse("well-known", 200, inferContentType(filename),
                     ManagedBody(config.content, Body(NoDoc), "replace"),
                     {<<"X-BotMon-Managed", "well-known">>, <<"X-BotMon-File", filename>>})

(***************************************************************************)
(* Pipeline stages (pipeline.ts)                                           *)
(***************************************************************************)
StageNames == <<"robots-txt", "sitemap", "well-known">>

\* property names every plain object inherits from Object.prototype
\* (constructor, toString, valueOf, ...), and the inherited member: a function
\* object, which is truthy and has neither `mode` nor `content`
ObjectPrototypeKeys == {"constructor"}
InheritedMember == [inherited |-> TRUE]

\* cfg.wellKnown.files[filename]: the own property, else the property
\* inherited from Object.prototype, else undefined
PropertyOf(files, filename) ==
    IF filename \in DOMAIN files THEN files[filename]
    ELSE IF filename \in ObjectPrototypeKeys THEN InheritedMember
    ELSE NULL

NotHandled(context) ==
    [handled |-> FALSE, throws |-> FALSE, fetched |-> FALSE, response |-> context.response]

\* stages[i].run(ctx, cfg, fetchOrigin)
StageRun(name, ctx, cfg, outcome) ==
    CASE name = "robots-txt" ->
           IF ~cfg.robotsTxt.enabled \/ cfg.robotsTxt.mode = "disabled" THEN NotHandled(ctx)
           ELSE IF ctx.url.pathname # <<"robots.txt">> THEN NotHandled(ctx)
           ELSE [handled |-> TRUE] @@ handleRobotsTxt(ctx, cfg.robotsTxt, outcome)
      [] name = "sitemap" ->
           IF ~cfg.sitemap.enabled \/ cfg.sitemap.mode = "disabled" THEN NotHandled(ctx)
           ELSE IF ctx.url.pathname # <<"sitemap.xml">> THEN NotHandled(ctx)
           ELSE [handled |-> TRUE] @@ handleSitemap(ctx, cfg.sitemap, outcome)
      [] OTHER ->
           IF ~cfg.wellKnown.enabled THEN NotHandled(ctx)
           ELSE IF Head(ctx.url.pathname) # ".well-known" \/ Len(ctx.url.pathname) < 2
           THEN NotHandled(ctx)
           ELSE LET filename == ctx.url.pathname[2]
                    fileConfig == PropertyOf(cfg.wellKnown.files, filename)
                IN  IF fileConfig = NULL \/ Coalesce(fileConfig, "mode", "") = "disabled"
                    THEN NotHandled(ctx)
                    ELSE [handled |-> TRUE, throws |-> FALSE, fetched |-> FALSE,
                          response |-> handleWellKnown(filename, fileConfig)]

(***************************************************************************)
(* mergeConfig applied to drawn inputs                                     *)
(***************************************************************************)
VARIABLES
    sdkConfig,     \* the managedRules object given in code
    remoteBundle,  \* the remote bundle, or NULL
    merged         \* NULL before the call, then what mergeConfig gave

mergeVars == <<sdkConfig, remoteBundle, merged>>

\* mergeConfig threw
Thrown == [threw |-> "TypeError"]

Merge ==
    /\ merged = NULL
    /\ \E remote \in RemoteConfigs :
         /\ remoteBundle' = remote
         /\ merged' = IF mergeConfigThrows(sdkConfig, remote) THEN Thrown
                      ELSE mergeConfig(sdkConfig, remote)
    /\ UNCHANGED sdkConfig

MergeInit == sdkConfig \in SdkConfigs /\ remoteBundle = NULL /\ merged = NULL

\* mergeConfig is not being examined on its own
MergeIdle == sdkConfig = NULL /\ remoteBundle = NULL /\ merged = NULL

(***************************************************************************)
(* Merge utilities (merge-utils.ts) on texts as sequences of lines         *)
(***************************************************************************)
MaxLines == 3
MaxLocs == 3

\* the texts of at most n items drawn from pool
TextsOver(pool, n) == UNION { [1..k -> pool] : k \in 0..n }

\* String.prototype.toLowerCase on the agent names of the model
ToLowerCase(s) == IF s = "GPTBot" THEN "gptbot" ELSE s

\* A robots.txt text is the sequence of its lines after trim():
\* "User-agent: <value>" (any letter case of the field name), a directive,
\* a comment or an empty line
AgentLine(agent) == [kind |-> "user-agent", value |-> agent]
RuleLine(text) == [kind |-> "rule", value |-> text]
CommentLine == [kind |-> "comment", value |-> "# note"]
BlankLine == [kind |-> "blank", value |-> ""]

\* the loop of parseRobotsTxt: `cur` is NULL while currentAgent is null,
\* else the block being collected
RECURSIVE parseLoop(_, _, _)
parseLoop(lines, blocks, cur) ==
    IF lines = <<>>
    THEN IF cur = NULL THEN blocks ELSE Append(blocks, cur)
    ELSE LET line == Head(lines)
         IN  IF line.kind \in {"blank", "comment"}
             THEN parseLoop(Tail(lines), blocks, cur)
             ELSE IF line.kind = "user-agent"
             THEN parseLoop(Tail(lines),
                            IF cur = NULL THEN blocks ELSE Append(blocks, cur),
                            [userAgent |-> line.value, rules |-> <<>>])
             ELSE IF cur # NULL
             THEN parseLoop(Tail(lines), blocks,
                            [cur EXCEPT !.rules = Append(@, line.value)])
             ELSE parseLoop(Tail(lines), blocks, cur)

parseRobotsTxt(content) == parseLoop(content, <<>>, NULL)

\* blocksToString: "User-agent: <agent>" and the rules of each block, the
\* blocks joined by an empty line
RECURSIVE blocksToString(_)
blocksToString(blocks) ==
    IF blocks = <<>> THEN <<>>
    ELSE LET b == Head(blocks)
             lines == <<AgentLine(b.userAgent)>> \o
                      [i \in 1..Len(b.rules) |-> RuleLine(b.rules[i])]
         IN  IF Len(blocks) = 1 THEN lines
             ELSE lines \o <<BlankLine>> \o blocksToString(Tail(blocks))

\* index of the last block for the agent key, 0 when none (Map.set keeps the
\* last block stored under a key)
LastForAgent(blocks, agentKey) ==
    LET hits == {i \in 1..Len(blocks) : ToLowerCase(blocks[i].userAgent) = agentKey}
    IN  IF hits = {} THEN 0 ELSE CHOOSE i \in hits : \A j \in hits : j <= i

\* mergeRobotsTxt that keeps every origin block
mergeRobotsTxt_NoOverride(originContent, botmonContent) ==
    blocksToString(parseRobotsTxt(originContent) \o parseRobotsTxt(botmonContent))

mergeRobotsTxt(originContent, botmonContent) ==
    LET originBlocks == parseRobotsTxt(originContent)
        botmonBlocks == parseRobotsTxt(botmonContent)
        override(b) == LastForAgent(botmonBlocks, ToLowerCase(b.userAgent))
        fromOrigin == [i \in 1..Len(originBlocks) |->
                         IF override(originBlocks[i]) # 0
                         THEN botmonBlocks[override(originBlocks[i])]
                         ELSE originBlocks[i]]
        usedAgents == {ToLowerCase(originBlocks[i].userAgent) : i \in
                         {j \in 1..Len(originBlocks) : override(originBlocks[j]) # 0}}
        botmonOnly == SelectSeq(botmonBlocks,
                                LAMBDA b : ToLowerCase(b.userAgent) \notin usedAgents)
    IN  blocksToString(fromOrigin \o botmonOnly)

\* trimEnd() / trimStart() of a text: its empty lines at that end are dropped
RECURSIVE TrimEnd(_)
TrimEnd(lines) ==
    IF lines # <<>> /\ lines[Len(lines)] = BlankLine
    THEN TrimEnd(SubSeq(lines, 1, Len(lines) - 1)) ELSE lines
RECURSIVE TrimStart(_)
TrimStart(lines) ==
    IF lines # <<>> /\ Head(lines) = BlankLine THEN TrimStart(Tail(lines)) ELSE lines

Separator == [kind |-> "comment", value |-> "# === BotMon Managed Rules ==="]

\* appendRobotsTxt: the origin text, an empty line, the separator comment,
\* the managed text and a final line break
appendRobotsTxt(originContent, botmonContent) ==
    LET trimmedOrigin == TrimEnd(originContent)
        trimmedBotmon == TrimStart(TrimEnd(botmonContent))
    IN  IF trimmedBotmon = <<>> THEN trimmedOrigin
        ELSE trimmedOrigin \o <<BlankLine, Separator>> \o trimmedBotmon \o <<BlankLine>>

\* the lines of the managed robots content "managed" and of the text
\* document an origin serves ("" has no lines)
ManagedRobotsLines(content) ==
    IF content = "managed" THEN <<AgentLine("gptbot"), RuleLine("Disallow: /")>> ELSE <<>>
OriginRobotsLines(body) ==
    IF body.doc = TextDoc THEN <<AgentLine("*"), RuleLine("Allow: /"), BlankLine>> ELSE <<>>

\* the text handleRobotsTxt puts in the response body: botmonContent alone,
\* appendRobotsTxt(originText, botmonContent) or
\* mergeRobotsTxt(originText, botmonContent)
RobotsBodyText(body) ==
    CASE body.how = "append" ->
           appendRobotsTxt(OriginRobotsLines(body.origin), ManagedRobotsLines(body.managed))
      [] body.how = "merge" ->
           mergeRobotsTxt(OriginRobotsLines(body.origin), ManagedRobotsLines(body.managed))
      [] OTHER -> ManagedRobotsLines(body.managed)

\* A sitemap is the sequence of its elements; the text of a <loc> element
\* may carry white space around the URL or be empty
LocElement(text) == [tag |-> "loc", text |-> text]
OtherElement(tag) == [tag |-> tag, text |-> ""]

\* what \s*(.*?)\s* captures of an element's text
Captured(text) == IF text = " b " THEN "b" ELSE text

\* extractSitemapUrls: the captured text of each <loc> element, skipping
\* empty captures
RECURSIVE extractSitemapUrls(_)
extractSitemapUrls(xml) ==
    IF xml = <<>> THEN <<>>
    ELSE LET e == Head(xml)
         IN  IF e.tag = "loc" /\ Captured(e.text) # ""
             THEN <<Captured(e.text)>> \o extractSitemapUrls(Tail(xml))
             ELSE extractSitemapUrls(Tail(xml))

\* the loop that keeps the first occurrence of each URL
RECURSIVE Deduplicate(_, _)
Deduplicate(urls, seen) ==
    IF urls = <<>> THEN <<>>
    ELSE IF Head(urls) \in seen THEN Deduplicate(Tail(urls), seen)
    ELSE <<Head(urls)>> \o Deduplicate(Tail(urls), seen \cup {Head(urls)})

\* mergeSitemapXml that keeps repeated URLs
mergeSitemapXml_NoDedup(originXml, botmonXml) ==
    LET allUrls == extractSitemapUrls(originXml) \o extractSitemapUrls(botmonXml)
    IN  <<OtherElement("?xml"), OtherElement("urlset")>>
        \o [i \in 1..Len(allUrls) |-> LocElement(allUrls[i])]
        \o <<OtherElement("/urlset")>>

mergeSitemapXml(originXml, botmonXml) ==
    LET allUrls == Deduplicate(extractSitemapUrls(originXml)
                               \o extractSitemapUrls(botmonXml), {})
    IN  <<OtherElement("?xml"), OtherElement("urlset")>>
        \o [i \in 1..Len(allUrls) |-> LocElement(allUrls[i])]
        \o <<OtherElement("/urlset")>>

\* the texts the utilities are examined on
OriginRobotsTexts ==
    TextsOver({AgentLine("*"), AgentLine("GPTBot"), RuleLine("Allow: /"), CommentLine},
              MaxLines)
ManagedRobotsTexts ==
    TextsOver({AgentLine("*"), AgentLine("gptbot"), RuleLine("Disallow: /"), BlankLine},
              MaxLines)
OriginSitemaps ==
    TextsOver({LocElement("a"), LocElement(" b "), LocElement(""), OtherElement("lastmod")},
              MaxLocs)
ManagedSitemaps ==
    TextsOver({LocElement("a"), LocElement("b"), LocElement("c")}, MaxLocs)

\* resolved robotsTxt / sitemap sections a handler can be given: any mode,
\* content absent, a string, or a number
HandlerConfigs ==
    [enabled : {TRUE}, mode : {"replace", "append", "merge", "disabled"}]
    \cup [enabled : {TRUE}, mode : {"replace", "append", "merge", "disabled"},
          content : {"managed", NumericContent}]

\* contexts a handler can be given: context.response is an origin response
HandlerContexts ==
    { buildContext(r, Numbered(OriginResponse(kind), 1)) :
        r \in {q \in Requests : q.pathname \in {<<"robots.txt">>, <<"sitemap.xml">>}},
        kind \in {"text", "missing"} }

\* documents by what detectFromMeta and detectFromContent find in them
DetectDocs ==
    { [NoDoc EXCEPT !.name = "page", !.metaType = m, !.heuristicType = h] :
        m \in {"none", "article", "product"},
        h \in {"none", "faq", "pricing", "how-to", "docs"} }

\* rules for detectPageType: with and without pageType, patterns that match
\* the same paths, and a pattern for a path the URL table does not know
RulePricing == [urlPattern |-> <<"products", "*">>, pageType |-> "pricing"]
RuleAbout == [urlPattern |-> <<"about">>, pageType |-> "faq"]
DetectRuleLists == TextsOver(RulePool \cup {RulePricing, RuleAbout}, MaxRules)

(***************************************************************************)
(* globToRegex (page-type-detector.ts) on strings as sequences of characters *)
(***************************************************************************)
MaxPatternLen == 4
MaxPathLen == 4

\* the characters the first replace() escapes: [.+^${}()|[\]\\]
EscapedChars == {".", "+", "^", "$", "{", "}", "(", ")", "|", "[", "]", "\\"}

\* the first replace(): each character with whether it got a backslash
Escape(pattern) ==
    [i \in 1..Len(pattern) |-> [ch |-> pattern[i], escaped |-> pattern[i] \in EscapedChars]]

\* the atoms of the regular expression the other replace() calls and
\* new RegExp build: "**" becomes .* ("any"), a remaining "*" becomes [^/]+
\* ("seg"), an escaped character matches itself, an unescaped "." matches
\* any character, an unescaped "?" is a quantifier: it makes the character
\* before it optional (after [^/]+ or .* it only makes the repetition lazy)
RECURSIVE RegexAtoms(_)
RegexAtoms(tokens) ==
    IF tokens = <<>> THEN <<>>
    ELSE LET t == Head(tokens)
             twoStars == /\ Len(tokens) >= 2
                         /\ t.ch = "*" /\ tokens[2].ch = "*"
             rest == IF twoStars THEN Tail(Tail(tokens)) ELSE Tail(tokens)
             quantified == rest # <<>> /\ Head(rest).ch = "?" /\ ~Head(rest).escaped
             kind == IF twoStars THEN "any"
                     ELSE IF t.ch = "*" THEN "seg"
                     ELSE IF t.ch = "." /\ ~t.escaped THEN "dot"
                     ELSE "lit"
         IN  <<[kind |-> kind, ch |-> t.ch, optional |-> quantified /\ kind \in {"lit", "dot"}]>>
             \o RegexAtoms(IF quantified THEN Tail(rest) ELSE rest)

\* globToRegex(pattern): the atoms between ^ and $
globToRegex(pattern) == RegexAtoms(Escape(pattern))

\* regex.test(path) for a regular expression ^atoms$
RECURSIVE RegexTest(_, _)
RegexTest(atoms, path) ==
    IF atoms = <<>> THEN path = <<>>
    ELSE LET a == Head(atoms)
             drop(k) == SubSeq(path, k + 1, Len(path))
         IN  CASE a.kind = "any" ->
                    \E k \in 0..Len(path) : RegexTest(Tail(atoms), drop(k))
               [] a.kind = "seg" ->
                    \E k \in 1..Len(path) :
                       /\ \A i \in 1..k : path[i] # "/"
                       /\ RegexTest(Tail(atoms), drop(k))
               [] OTHER ->
                    \/ /\ path # <<>>
                       /\ a.kind = "dot" \/ Head(path) = a.ch
                       /\ RegexTest(Tail(atoms), Tail(path))
                    \/ a.optional /\ RegexTest(Tail(atoms), path)

\* glob patterns and paths as character sequences that start with "/"; a
\* "?" of a pattern follows a character other than "?"
GlobPatterns ==
    { p \in TextsOver({"/", "a", ".", "?", "*"}, MaxPatternLen) :
        /\ p # <<>> /\ Head(p) = "/"
        /\ \A i \in 2..Len(p) : p[i] = "?" => p[i - 1] # "?" }
GlobPaths ==
    { p \in TextsOver({"/", "a", "."}, MaxPathLen) : p # <<>> /\ Head(p) = "/" }

(***************************************************************************)
(* Heading enricher (heading-enricher.ts) on documents as element lists    *)
(***************************************************************************)
MaxElements == 3

\* An HTML text is the sequence of its parts: a heading <hN attrs>...</hN>
\* with its level and its attributes in order, or any other text
Heading(level, attrs) == [kind |-> "heading", level |-> level, attrs |-> attrs]
OtherText == [kind |-> "text", level |-> 0, attrs |-> <<>>]

\* attrs.includes("data-botmon-section")
HasMarker(attrs) == \E i \in 1..Len(attrs) : attrs[i][1] = "data-botmon-section"

\* a callback that does not look for the marker
EnrichOne_Always(heading, n, pageType) ==
    [heading EXCEPT !.attrs = @ \o << <<"data-botmon-section", n>>,
                                      <<"data-botmon-level", heading.level>>,
                                      <<"data-botmon-page-type", pageType>> >>]

\* the replace callback: the heading that is the n-th match
EnrichOne(heading, n, pageType) ==
    IF HasMarker(heading.attrs) THEN heading
    ELSE [heading EXCEPT !.attrs = @ \o << <<"data-botmon-section", n>>,
                                           <<"data-botmon-level", heading.level>>,
                                           <<"data-botmon-page-type", pageType>> >>]

\* enrichHeadings: sectionIndex counts every heading matched so far
enrichHeadings(html, pageType) ==
    [i \in 1..Len(html) |->
       IF html[i].kind = "heading"
       THEN EnrichOne(html[i],
                      Cardinality({j \in 1..i : html[j].kind = "heading"}),
                      pageType)
       ELSE html[i]]

HtmlTexts ==
    TextsOver({ Heading(1, <<>>), Heading(2, << <<"class", "title">> >>),
                Heading(2, << <<"data-botmon-section", 7>> >>), OtherText },
              MaxElements)

(***************************************************************************)
(* Schema generator (schema-generator.ts)                                  *)
(***************************************************************************)
\* { ...base, ...custom }: the keys of custom replace those of base
Spread(base, custom) ==
    [k \in DOMAIN base \cup DOMAIN custom |->
        IF k \in DOMAIN custom THEN custom[k] ELSE base[k]]

\* ...(cond && { key: value })
SpreadIf(base, cond, key, value) ==
    IF cond THEN Spread(base, [k \in {key} |-> value]) ELSE base

\* what html-utils extracts from a page: the keys present are the tags found
SchemaTitle(html) ==
    IF Has(html, "ogTitle") THEN html.ogTitle ELSE Coalesce(html, "title", "")
SchemaCustom(matchingRule) ==
    IF matchingRule # NULL /\ Has(matchingRule, "customJsonLd")
    THEN matchingRule.customJsonLd ELSE EmptyObject

SchemaBase(type, nameKey, html, url) ==
    [k \in {"@context", "@type", nameKey, "url"} |->
        CASE k = "@context" -> "https://schema.org"
          [] k = "@type" -> type
          [] k = "url" -> url
          [] OTHER -> SchemaTitle(html)]
WithDescription(schema, html) ==
    Spread(schema, [description |-> Coalesce(html, "description", "")])
FirstOffer(html) ==
    [type |-> "Offer", price |-> html.prices[1], availability |-> "https://schema.org/InStock"]
AllOffers(html) ==
    [i \in 1..Len(html.prices) |-> [type |-> "Offer", price |-> html.prices[i]]]

generateProductSchema(html, url, custom) ==
    Spread(SpreadIf(SpreadIf(WithDescription(SchemaBase("Product", "name", html, url), html),
                             Has(html, "image"), "image", Coalesce(html, "image", "")),
                    Len(html.prices) > 0, "offers", FirstOffer(html)),
           custom)
generateArticleSchema(html, url, custom) ==
    Spread(SpreadIf(SpreadIf(WithDescription(SchemaBase("Article", "headline", html, url), html),
                             Has(html, "image"), "image", Coalesce(html, "image", "")),
                    Has(html, "published"), "datePublished", Coalesce(html, "published", "")),
           custom)
generateDocsSchema(html, url, custom) ==
    Spread(WithDescription(SchemaBase("TechArticle", "headline", html, url), html), custom)
generateFaqSchema(html, url, custom) ==
    Spread(Spread(SchemaBase("FAQPage", "name", html, url), [mainEntity |-> html.faq]), custom)
generateHowToSchema(html, url, custom) ==
    Spread(Spread(WithDescription(SchemaBase("HowTo", "name", html, url), html),
                  [step |-> html.steps]), custom)
generatePricingSchema(html, url, custom) ==
    Spread(SpreadIf(WithDescription(SchemaBase("WebPage", "name", html, url), html),
                    Len(html.prices) > 0, "offers", AllOffers(html)),
           custom)
generateGenericSchema(html, url, custom) ==
    Spread(WithDescription(SchemaBase("WebPage", "name", html, url), html), custom)

generateSchema(pageType, html, url, matchingRule) ==
    LET customJsonLd == SchemaCustom(matchingRule)
    IN  CASE pageType = "product" -> generateProductSchema(html, url, customJsonLd)
          [] pageType = "article" -> generateArticleSchema(html, url, customJsonLd)
          [] pageType = "docs" -> generateDocsSchema(html, url, customJsonLd)
          [] pageType = "faq" -> generateFaqSchema(html, url, customJsonLd)
          [] pageType = "how-to" -> generateHowToSchema(html, url, customJsonLd)
          [] pageType = "pricing" -> generatePricingSchema(html, url, customJsonLd)
          [] pageType = "comparison" -> generateGenericSchema(html, url, customJsonLd)
          [] OTHER -> generateGenericSchema(html, url, customJsonLd)

PageTypes ==
    {"product", "article", "docs", "faq", "how-to", "pricing", "comparison", "generic"}
SchemaPages ==
    { [prices |-> <<>>, faq |-> <<>>, steps |-> <<>>],
      [title |-> "Title", description |-> "About", prices |-> <<10>>,
       faq |-> <<"Q1">>, steps |-> <<"S1">>],
      [title |-> "Title", ogTitle |-> "OG", image |-> "img.png", published |-> "2024-01-01",
       prices |-> <<10, 20>>, faq |-> <<"Q1", "Q2">>, steps |-> <<"S1", "S2">>] }
SchemaRules ==
    { NULL,
      [urlPattern |-> <<"p">>],
      [urlPattern |-> <<"p">>, customJsonLd |-> [brand |-> "BotMon"]],
      [urlPattern |-> <<"p">>, customJsonLd |-> [name |-> "Custom"]],
      [urlPattern |-> <<"p">>, customJsonLd |-> [k \in {"@type"} |-> "Event"]],
      [urlPattern |-> <<"p">>, customJsonLd |-> [k \in {"@context"} |-> "https://example.com"]] }

(***************************************************************************)
(* Analytics event (client/botmon.ts): sanitizeQueryString, buildEvent     *)
(***************************************************************************)
MaxParams == 2

\* the names the SENSITIVE_PARAM_PATTERNS accept, in lower case (each
\* pattern is anchored and has the i flag)
SensitiveNames ==
    { "token", "key", "password", "passwd", "secret", "auth", "authorization",
      "credential", "session", "jwt", "bearer", "apikey", "api_key", "api-key",
      "accesstoken", "access_token", "access-token", "refreshtoken", "refresh_token",
      "refresh-token", "privatekey", "private_key", "private-key", "clientsecret",
      "client_secret", "client-secret" }

\* the i flag, on the parameter names of the model
ParamLowerCase(name) == IF name = "Token" THEN "token" ELSE name

\* SENSITIVE_PARAM_PATTERNS.some((pattern) => pattern.test(key))
IsSensitive(name) == ParamLowerCase(name) \in SensitiveNames

\* a query string is the sequence of its <<name, value>> pairs
RECURSIVE FilterParams(_)
FilterParams(params) ==
    IF params = <<>> THEN <<>>
    ELSE IF IsSensitive(Head(params)[1]) THEN FilterParams(Tail(params))
    ELSE <<Head(params)>> \o FilterParams(Tail(params))

\* sanitizeQueryString: <<>> is undefined, given for an empty or undefined
\* query string and returned when no parameter is left
sanitizeQueryString(queryString) ==
    IF queryString = <<>> THEN <<>> ELSE FilterParams(queryString)

\* a request URL is its hostname, its path and its query; request.url is all
\* of it
RequestUrl(hostname, pathname, query) ==
    [hostname |-> hostname, pathname |-> pathname, search |-> query]

\* buildEvent, with the requestId and timestamp it draws
buildEvent(options, requestId, timestamp) ==
    LET url == options.request.url
        rawQueryString == url.search
        sanitizedQueryString == sanitizeQueryString(rawQueryString)
        event == [type |-> "raw", url |-> options.request.url, hostname |-> url.hostname,
                  requestId |-> requestId, timestamp |-> timestamp,
                  method |-> options.request.method, path |-> url.pathname,
                  statusCode |-> options.response.status,
                  userAgent |-> options.request.userAgent]
    IN  IF sanitizedQueryString = <<>> THEN event
        ELSE Spread(event, [queryString |-> sanitizedQueryString])

ParamNames == {"token", "Token", "api_key", "page"}
ParamValues == {"a", "b"}
QueryStrings == TextsOver({<<n, v>> : n \in ParamNames, v \in ParamValues}, MaxParams)
TrackRequests ==
    { [url |-> RequestUrl("a.example", <<"docs">>, q), method |-> "GET", userAgent |-> "GPTBot"] :
        q \in QueryStrings }

\* the request that differs in the value of parameter i only
WithParamValue(request, i, value) ==
    [request EXCEPT !.url.search[i] = <<@[1], value>>]


\* inputs of mergeGeoRules followed by findMatchingRule: code-level rules,
\* dashboard rules (RuleP2 and RulePricing have the urlPattern of RuleP1,
\* RuleBlogStar and RuleAbout are dashboard-only) and the paths they match
RuleBlogStar == [urlPattern |-> <<"blog", "*">>, pageType |-> "docs"]
CodeRuleLists == TextsOver({RuleB, RuleP1}, MaxRules)
DashboardRuleLists == TextsOver({RuleP2, RulePricing, RuleBlogStar, RuleAbout}, MaxRules)


\* inputs of applyGeoOptimization: an origin response of each content type
\* around a document with or without </head>, a summary source and
\* headings; the three switches of the geo config; rule lists that disable
\* /blog/**, give /products/* a summary, or hold a urlPattern that is not a
\* string
GeoDocs ==
    { [NoDoc EXCEPT !.name = "doc", !.hasHead = h, !.summary = m, !.headings = g] :
        h \in BOOLEAN, m \in BOOLEAN, g \in BOOLEAN }
GeoContentTypes ==
    { "text/html; charset=utf-8", "text/plain; charset=utf-8", "text/markdown",
      "application/json", "" }
GeoRuleLists ==
    { <<>>, <<RuleB>>, <<RuleP2>>,
      <<[urlPattern |-> NumericPattern, pageType |-> "product"]>> }
GeoConfigs ==
    [ enabled : {TRUE}, injectJsonLd : BOOLEAN, injectSummary : BOOLEAN,
      enrichHeadings : BOOLEAN, rules : GeoRuleLists ]

\* most words of a User-Agent given to detectAiBot on its own
MaxWords == 2

\* inputs of detectAiBot: agents in several spellings, a search crawler
\* that is no AI agent, a browser word
DetectUserAgents ==
    TextsOver({"Mozilla", "GPTBot", "gptbot", "BINGBOT", "Googlebot"}, MaxWords)

\* inputs of runPipeline on its own: a text response of the origin to an
\* agent or a browser, under a resolved config whose geo section is one of
\* GeoConfigs and whose managed-file sections are off
PipelineCalls ==
    { [fn |-> "runPipeline",
       context |-> buildContext([hostname |-> "a.example", pathname |-> q, userAgent |-> u],
                                NewResponse("origin", 200, t, Body(TextDoc), {})),
       config |-> [DEFAULTS EXCEPT !.geo = g]] :
        q \in { <<"products", "widget">>, <<"blog", "post">>, <<"about">> },
        u \in { <<"mozilla", "gptbot">>, <<"mozilla", "chrome">> },
        t \in { "text/plain; charset=utf-8", "text/markdown" },
        g \in GeoConfigs }

UtilCalls ==
    { [fn |-> "detectAiBot", userAgent |-> u] : u \in DetectUserAgents }
    \cup
    PipelineCalls
    \cup
    { [fn |-> "applyGeoOptimization",
       response |-> NewResponse("origin", 200, t, Body(d), {}),
       pathname |-> q, config |-> g] :
        t \in GeoContentTypes, d \in GeoDocs, g \in GeoConfigs,
        q \in { <<"products", "widget">>, <<"blog", "post">>, <<"about">> } }
    \cup
    { [fn |-> "mergeGeoRules", sdkRules |-> a, dashboardRules |-> b, pathname |-> q] :
        a \in CodeRuleLists, b \in DashboardRuleLists,
        q \in { <<"products", "widget">>, <<"blog", "post">>, <<"about">> } }
    \cup
    { [fn |-> "buildEvent", request |-> r, param |-> i, value |-> v] :
        r \in { q \in TrackRequests : q.url.search # <<>> }, i \in 1..MaxParams,
        v \in ParamValues }
    \cup
    { [fn |-> "generateSchema", pageType |-> t, html |-> h, rule |-> r] :
        t \in PageTypes, h \in SchemaPages, r \in SchemaRules }
    \cup
    { [fn |-> "enrichHeadings", html |-> h, pageType |-> t] :
        h \in HtmlTexts, t \in {"product", "generic"} }
    \cup
    { [fn |-> "globToRegex", pattern |-> p, path |-> q] :
        p \in GlobPatterns, q \in GlobPaths }
    \cup
    { [fn |-> "detectPageType", pathname |-> q, html |-> d, geoRules |-> r] :
        q \in Paths, d \in DetectDocs, r \in DetectRuleLists }
    \cup
    { [fn |-> "mergeRobotsTxt", originContent |-> o, botmonContent |-> b] :
        o \in OriginRobotsTexts, b \in ManagedRobotsTexts }
    \cup { [fn |-> "mergeSitemapXml", originXml |-> o, botmonXml |-> b] :
             o \in OriginSitemaps, b \in ManagedSitemaps }
    \cup { [fn |-> f, context |-> c, config |-> g, fetchOrigin |-> o] :
             f \in {"handleRobotsTxt", "handleSitemap"}, c \in HandlerContexts,
             g \in HandlerConfigs, o \in OriginKinds \cup HandlerFailures }

VARIABLES
    call,     \* the utility call being examined: its name and arguments
    result    \* NULL before the call, then [value |-> what it returned]

utilVars == <<call, result>>

MergeRobotsTxtCall ==
    /\ call.fn = "mergeRobotsTxt" /\ result = NULL
    /\ result' = [value |-> mergeRobotsTxt(call.originContent, call.botmonContent)]
    /\ UNCHANGED call

MergeSitemapXmlCall ==
    /\ call.fn = "mergeSitemapXml" /\ result = NULL
    /\ result' = [value |-> mergeSitemapXml(call.originXml, call.botmonXml)]
    /\ UNCHANGED call

\* the handler is given a fetchOrigin callback that does call.fetchOrigin
HandleRobotsTxtCall ==
    /\ call.fn = "handleRobotsTxt" /\ result = NULL
    /\ result' = [value |-> handleRobotsTxt(call.context, call.config, call.fetchOrigin)]
    /\ UNCHANGED call

HandleSitemapCall ==
    /\ call.fn = "handleSitemap" /\ result = NULL
    /\ result' = [value |-> handleSitemap(call.context, call.config, call.fetchOrigin)]
    /\ UNCHANGED call

DetectPageTypeCall ==
    /\ call.fn = "detectPageType" /\ result = NULL
    /\ result' = [value |-> detectPageTypeResult(call.pathname, call.html, call.geoRules)]
    /\ UNCHANGED call

GlobToRegexCall ==
    /\ call.fn = "globToRegex" /\ result = NULL
    /\ result' = [value |-> RegexTest(globToRegex(call.pattern), call.path)]
    /\ UNCHANGED call

EnrichHeadingsCall ==
    /\ call.fn = "enrichHeadings" /\ result = NULL
    /\ result' = [value |-> enrichHeadings(call.html, call.pageType), applied |-> 1]
    /\ UNCHANGED call

\* enrichHeadings applied to its own output
EnrichHeadingsAgainCall ==
    /\ call.fn = "enrichHeadings" /\ result # NULL /\ result.applied = 1
    /\ result' = [value |-> enrichHeadings(result.value, call.pageType),
                  previous |-> result.value, applied |-> 2]
    /\ UNCHANGED call

GenerateSchemaCall ==
    /\ call.fn = "generateSchema" /\ result = NULL
    /\ result' = [value |-> generateSchema(call.pageType, call.html, "https://example.com/p",
                                           call.rule)]
    /\ UNCHANGED call

BuildEventCall ==
    /\ call.fn = "buildEvent" /\ result = NULL
    /\ call.param <= Len(call.request.url.search)
    /\ \E id1 \in {"uuid-1", "uuid-2"}, id2 \in {"uuid-2", "uuid-3"} :
         result' =
           [value |-> buildEvent([request |-> call.request, response |-> [status |-> 200]],
                                 id1, 1),
            twin |-> buildEvent([request |-> WithParamValue(call.request, call.param,
                                                            call.value),
                                 response |-> [status |-> 200]],
                                id2, 2)]
    /\ UNCHANGED call

\* mergeGeoRules, then findMatchingRule on the merged list
MergeGeoRulesCall ==
    /\ call.fn = "mergeGeoRules" /\ result = NULL
    /\ LET rules == mergeGeoRules(call.sdkRules, call.dashboardRules)
       IN  result' = [value |-> rules,
                      match |-> findMatchingRule(call.pathname, rules)]
    /\ UNCHANGED call

\* applyGeoOptimization(response, context, config): a result, or the
\* TypeError of globToRegex
ApplyGeoOptimizationCall ==
    /\ call.fn = "applyGeoOptimization" /\ result = NULL
    /\ result' = IF applyGeoThrows(call.response, call.pathname, call.config)
                 THEN [threw |-> TRUE]
                 ELSE [threw |-> FALSE,
                       value |-> applyGeoOptimization(call.response, call.pathname,
                                                      call.config)]
    /\ UNCHANGED call

DetectAiBotCall ==
    /\ call.fn = "detectAiBot" /\ result = NULL
    /\ result' = [value |-> detectAiBot(call.userAgent)]
    /\ UNCHANGED call

\* the output of mergeRobotsTxt / mergeSitemapXml merged with the same
\* managed text once more
MergeRobotsTxtAgainCall ==
    /\ call.fn = "mergeRobotsTxt" /\ result # NULL /\ DOMAIN result = {"value"}
    /\ result' = [value |-> result.value,
                  again |-> mergeRobotsTxt(result.value, call.botmonContent)]
    /\ UNCHANGED call

MergeSitemapXmlAgainCall ==
    /\ call.fn = "mergeSitemapXml" /\ result # NULL /\ DOMAIN result = {"value"}
    /\ result' = [value |-> result.value,
                  again |-> mergeSitemapXml(result.value, call.botmonXml)]
    /\ UNCHANGED call

UtilInit == call \in UtilCalls /\ result = NULL

\* no utility is being examined on its own
UtilIdle == call = NULL /\ result = NULL

(***************************************************************************)
(* Analytics client (client/botmon.ts): BotMon.init, dispose, track        *)
(***************************************************************************)
MaxInstances == 2

VARIABLES
    singleton,      \* BotMon.instance: NULL or the instance, [id, config]
    made,     \* how many instances have been constructed
    last,     \* the last call of the client and how it ended, or NULL
    waiting   \* the promise last given to ctx.waitUntil, or NULL

clientVars == <<singleton, made, last, waiting>>

\* the client is not being examined on its own
ClientIdle == singleton = NULL /\ made = 0 /\ last = NULL /\ waiting = NULL

HttpsIngest == [scheme |-> "https", host |-> "ingest.example"]
HttpIngest == [scheme |-> "http", host |-> "ingest.example"]
DefaultIngest == [scheme |-> "https", host |-> "analytics.botmon.io"]
BlankKey == "   "

\* the config objects given to BotMon.init; init() is init({})
ClientConfigs ==
    { EmptyObject,
      [apiKey |-> "btmn_1"],
      [apiKey |-> BlankKey],
      [ingestUrl |-> HttpsIngest],
      [apiKey |-> "btmn_2", ingestUrl |-> HttpsIngest],
      [apiKey |-> "btmn_1", ingestUrl |-> HttpIngest],
      [apiKey |-> "btmn_1", onError |-> "returns"],
      [apiKey |-> "btmn_2", onError |-> "throws"] }

\* globalThis.env
ClientEnvs == { NULL, [BOTMON_API_KEY |-> "btmn_env"] }

\* lines 86-99: explicit config first, then env, then the defaults
FinalConfig(config, env) ==
    LET keyed == IF Has(config, "apiKey") THEN [apiKey |-> config.apiKey]
                 ELSE IF Has(env, "BOTMON_API_KEY") THEN [apiKey |-> env.BOTMON_API_KEY]
                 ELSE EmptyObject
        url == IF Has(config, "ingestUrl") THEN config.ingestUrl
               ELSE Coalesce(env, "BOTMON_INGEST_URL", DefaultIngest)
    IN  WithOpt(Spread(keyed, [ingestUrl |-> url]), config, "onError")

\* lines 101-120: the validation of the constructor; "none" when it passes
ConstructorError(config, env) ==
    LET final == FinalConfig(config, env)
    IN  IF ~Has(final, "apiKey") THEN "apiKey is required"
        ELSE IF final.apiKey = BlankKey THEN "apiKey must be a non-empty string"
        ELSE IF final.ingestUrl.scheme # "https" THEN "ingestUrl must use HTTPS"
        ELSE "none"

\* if (BotMon.instance)
InstanceExists_Never(instance) == FALSE
InstanceExists(instance) == instance # NULL

Outcome(op, config, env, before, threw, returned) ==
    [op |-> op, config |-> config, env |-> env, before |-> before,
     threw |-> threw, returned |-> returned]

\* BotMon.init(config)
InitCall ==
    /\ singleton # NULL \/ made < MaxInstances
    /\ \E config \in ClientConfigs, env \in ClientEnvs :
         IF InstanceExists(singleton)
         THEN /\ last' = Outcome("init", config, env, singleton, FALSE, singleton.id)
              /\ UNCHANGED <<singleton, made>>
         ELSE IF ConstructorError(config, env) # "none"
         THEN /\ last' = Outcome("init", config, env, singleton, TRUE, 0)
              /\ UNCHANGED <<singleton, made>>
         ELSE /\ singleton' = [id |-> made + 1, config |-> FinalConfig(config, env)]
              /\ made' = made + 1
              /\ last' = Outcome("init", config, env, singleton, FALSE, made + 1)
    /\ UNCHANGED waiting

\* dispose(), on any instance that init has returned
DisposeCall ==
    /\ made > 0
    /\ singleton' = NULL
    /\ last' = Outcome("dispose", EmptyObject, NULL, singleton, FALSE, 0)
    /\ UNCHANGED <<made, waiting>>

PromiseSettled(promise) == promise.state \in {"fulfilled", "rejected"}

\* track(ctx, options): buildEvent starts (new URL(request.url) may throw
\* inside the async function) and the chained promise goes to ctx.waitUntil
TrackCall ==
    /\ singleton # NULL
    /\ IF waiting = NULL THEN TRUE ELSE PromiseSettled(waiting)
    /\ \E built \in BOOLEAN :
         waiting' = [state |-> IF built THEN "sending" ELSE "failed",
                     config |-> singleton.config, reported |-> FALSE]
    /\ last' = Outcome("track", EmptyObject, NULL, singleton, FALSE, 0)
    /\ UNCHANGED <<singleton, made>>

\* .then((event) => this.sendEvent(event)): fulfils or, retries used up, rejects
SendEventSettles ==
    /\ waiting # NULL /\ waiting.state = "sending"
    /\ \E sent \in BOOLEAN :
         waiting' = [waiting EXCEPT !.state = IF sent THEN "fulfilled" ELSE "failed"]
    /\ UNCHANGED <<singleton, made, last>>

\* .catch((err) => ...): onError when configured; what the handler throws
\* rejects the chained promise
CatchHandler ==
    /\ waiting # NULL /\ waiting.state = "failed"
    /\ waiting' =
         IF Has(waiting.config, "onError")
         THEN [waiting EXCEPT !.reported = TRUE,
                              !.state = IF waiting.config.onError = "throws"
                                        THEN "rejected" ELSE "fulfilled"]
         ELSE [waiting EXCEPT !.state = "fulfilled"]
    /\ UNCHANGED <<singleton, made, last>>

ClientInit == singleton = NULL /\ made = 0 /\ last = NULL /\ waiting = NULL

(***************************************************************************)
(* Two requests in flight through one worker (middleware/cloudflare.ts)    *)
(***************************************************************************)
VARIABLES
    worker,   \* the MiddlewareConfig the worker was created with, or NULL
    flight    \* for each request in flight, the locals of its fetch call

concVars == <<worker, flight>>

\* no requests are being followed side by side
ConcIdle == worker = NULL /\ flight = NULL

(***************************************************************************)
(* Retry engine (retry-engine.ts): executeWithRetry as a process           *)
(***************************************************************************)
MaxRetryAttempts == 2

\* what one invocation of fn settles with
FnOutcomes ==
    { [ok |-> TRUE, value |-> "v1"], [ok |-> TRUE, value |-> "v2"],
      [ok |-> FALSE, error |-> "e1"], [ok |-> FALSE, error |-> "e2"] }

RetryConfigs ==
    [retryAttempts : 0..MaxRetryAttempts, retryBackoffMs : {4, 8}, retryMaxBackoffMs : {8}]

Pow2(n) == IF n = 0 THEN 1 ELSE IF n = 1 THEN 2 ELSE IF n = 2 THEN 4 ELSE 8
Min(a, b) == IF a < b THEN a ELSE b

\* calculateDelay: the capped delay with a jitter of up to a quarter of it
\* either way, Math.random() being any number of [0, 1)
calculateDelay(config, attempt) ==
    LET baseDelay == config.retryBackoffMs * Pow2(attempt)
        cappedDelay == Min(baseDelay, config.retryMaxBackoffMs)
    IN  { cappedDelay - cappedDelay \div 4, cappedDelay, cappedDelay + cappedDelay \div 4 - 1 }

\* if (attempt >= this.config.retryAttempts)
LastAttempt_Never(attempt, retryAttempts) == FALSE
LastAttempt(attempt, retryAttempts) == attempt >= retryAttempts

FnEvent(outcome) == [ev |-> "fn", outcome |-> outcome]
SleepEvent(ms) == [ev |-> "sleep", ms |-> ms]

\* the call begins: let lastError; attempt = 0
RetryStart ==
    /\ call.fn = "executeWithRetry" /\ result = NULL
    /\ result' = [pc |-> "loop", attempt |-> 0, lastError |-> "undefined", log |-> <<>>]
    /\ UNCHANGED call

\* one turn of the loop up to its next await: fn is invoked and settles;
\* the call resolves, rejects, or starts its sleep
RetryInvoke ==
    /\ call.fn = "executeWithRetry" /\ result # NULL /\ result.pc = "loop"
    /\ \E outcome \in FnOutcomes :
         LET log == Append(result.log, FnEvent(outcome))
         IN  IF outcome.ok
             THEN result' = [pc |-> "resolved", attempt |-> result.attempt,
                             lastError |-> result.lastError, log |-> log,
                             value |-> outcome.value]
             ELSE IF LastAttempt(result.attempt, call.config.retryAttempts)
             THEN result' = [pc |-> "rejected", attempt |-> result.attempt,
                             lastError |-> outcome.error, log |-> log,
                             error |-> outcome.error]
             ELSE \E delay \in calculateDelay(call.config, result.attempt) :
                     result' = [pc |-> "sleep", attempt |-> result.attempt,
                                lastError |-> outcome.error,
                                log |-> Append(log, SleepEvent(delay))]
    /\ UNCHANGED call

\* the timer fires: attempt++ and the loop condition; past the loop the call
\* throws lastError
RetryWake ==
    /\ call.fn = "executeWithRetry" /\ result # NULL /\ result.pc = "sleep"
    /\ result' = IF result.attempt + 1 <= call.config.retryAttempts
                 THEN [result EXCEPT !.pc = "loop", !.attempt = @ + 1]
                 ELSE [pc |-> "rejected", attempt |-> result.attempt + 1,
                       lastError |-> result.lastError, log |-> result.log,
                       error |-> result.lastError]
    /\ UNCHANGED call

RetryInit ==
    /\ call \in { [fn |-> "executeWithRetry", config |-> c] : c \in RetryConfigs }
    /\ result = NULL

(***************************************************************************)
(* State                                                                   *)
(***************************************************************************)
VARIABLES
    cache,       \* the edge cache (caches.default): a set of stored entries
    now,         \* the clock, in seconds
    sensitive,   \* whether the cache distinguishes the X-API-Key header of a key
    clients,     \* the (hostname, apiKey) pairs fetchConfig is called for
    cacheTtl,    \* the configured cacheTtlSeconds
    lastCall,    \* the fetchConfig call made at this instant, with its result
    prevMiss,    \* the caller of the previous call, when its fetch failed on a miss
    tracked      \* a cached answer being followed through the later calls

fetchVars == <<cache, now, sensitive, clients, cacheTtl, lastCall, prevMiss, tracked>>

\* the answers fetchConfig caches: a 404 and a 2xx with a JSON body
Cacheable(net) ==
    net.kind = "json" /\ (net.status = 404 \/ ResponseOk(net.status))

\* One call of fetchConfig.  `mark` says whether the answer this call stores
\* is the one followed from here on.
FetchCall ==
    \E client \in clients, mode \in CacheModes, net \in NetOutcomes, mark \in BOOLEAN :
      LET r == fetchConfig(cache, now, sensitive, client.hostname, client.apiKey,
                           ApiBaseUrl, cacheTtl, mode, net)
          stored == r.requests = 1 /\ Cacheable(net) /\ ~CacheWriteFails(mode)
      IN  \* the endpoint's answer and the mark are only choices when they are used
          /\ r.requests = 0 => net = CHOOSE n \in NetOutcomes : n.kind = "reject"
          /\ ~stored => ~mark
          /\ cache' = r.cache
          /\ lastCall' = [hostname |-> client.hostname, apiKey |-> client.apiKey,
                          mode |-> mode, net |-> net, ret |-> r.ret,
                          requests |-> r.requests,
                          cacheChanged |-> (r.cache # cache),
                          afterFailedMiss |-> prevMiss = client]
          /\ prevMiss' = IF /\ ~CacheReadFails(mode)
                            /\ r.requests = 1
                            /\ ~Cacheable(net)
                         THEN client ELSE NULL
          /\ tracked' =
               IF stored /\ mark
               THEN [hostname |-> client.hostname, apiKey |-> client.apiKey,
                     time |-> now, status |-> net.status, value |-> r.ret,
                     later |-> FALSE]
               ELSE IF tracked = NULL \/ mode # "ok" THEN NULL
               ELSE [tracked EXCEPT !.later = TRUE]
          /\ UNCHANGED <<now, sensitive, clients, cacheTtl>>

\* A second passes; the cache drops the entries whose max-age has run out.
Tick ==
    /\ now < MaxTime
    /\ now' = now + 1
    /\ cache' = {e \in cache : EntryFresh(e, now + 1)}
    /\ lastCall' = NULL
    /\ tracked' = IF tracked # NULL /\ now + 1 < tracked.time + cacheTtl
                  THEN tracked ELSE NULL
    /\ UNCHANGED <<sensitive, clients, cacheTtl, prevMiss>>

FetchInit ==
    /\ cache = {}
    /\ now = 0
    /\ sensitive \in BOOLEAN
    /\ clients \in ClientPairs
    /\ cacheTtl \in Ttls
    /\ lastCall = NULL
    /\ prevMiss = NULL
    /\ tracked = NULL



(***************************************************************************)
(* The Cloudflare middleware (cloudflare.ts) around runPipeline            *)
(***************************************************************************)
\* requests one worker serves in a behaviour
MaxRequests == 2

DEFAULT_CONFIG_CACHE_TTL == 300

\* managedRules given in code
CodeRules ==
    [ robotsTxt |-> [enabled |-> TRUE, mode |-> "merge"],
      sitemap   |-> [enabled |-> TRUE, mode |-> "append"],
      wellKnown |-> [enabled |-> TRUE,
                     files |-> [f \in {"llms.txt"} |-> [mode |-> "replace"]]],
      geo       |-> [enabled |-> TRUE, rules |-> <<RuleB>>] ]

\* MiddlewareConfig values.  apiKey "" is a missing key, hook says whether
\* onResponse is given, ingestUrl is the analytics endpoint.
MwConfigs ==
    [ apiKey : {"", "key1"},
      managedRules : {EmptyObject, CodeRules},
      hook : BOOLEAN,
      sessionTracking : {EmptyObject, [enabled |-> FALSE]},
      ingestUrl : {"https://analytics.botmon.io/ingest", "http://insecure.example"} ]

\* remote bundles the dashboard serves to the middleware: a full one, one
\* with a numeric robots content, a sitemap mode the SDK does not know and a
\* numeric rule pattern, one whose
\* wellKnown section has no files, and BundleB
BundleFull ==
    [ robotsTxt |-> [enabled |-> TRUE, mode |-> "replace", content |-> "managed"],
      sitemap   |-> [enabled |-> TRUE, mode |-> "merge", content |-> "managed"],
      wellKnown |-> [enabled |-> TRUE,
                     files |-> [f \in {"llms.txt"} |-> [content |-> "managed"]]],
      geo       |-> [enabled |-> TRUE, rules |-> <<RuleB, RuleP1>>] ]
BundleMalformed ==
    [ robotsTxt |-> [enabled |-> TRUE, mode |-> "append", content |-> NumericContent],
      sitemap   |-> [enabled |-> TRUE, mode |-> "prepend", content |-> "managed"],
      geo       |-> [enabled |-> TRUE,
                     rules |-> <<[urlPattern |-> NumericPattern, pageType |-> "product"]>>] ]
BundleNoFiles == [wellKnown |-> [enabled |-> TRUE]]
MwBundles == {BundleFull, BundleMalformed, BundleNoFiles, BundleB}

MwNetOutcomes ==
    [kind : {"json"}, status : {200}, body : MwBundles]
    \cup [kind : {"json"}, status : {404, 500}, body : {NULL}]
    \cup [kind : {"reject"}, status : {0}, body : {NULL}]

\* what config.onResponse(context) can do
HookOutcomes == {"same", "new", "throw"}

\* runPipeline before it starts.  ran: the stages evaluated so far, in order
\* ("geo" for applyGeoOptimization); threw: the stages that threw; handled /
\* stageResponse: the stage that returned a response, and that response.
NoPipeline == [ran |-> <<>>, threw |-> {}, appliedRules |-> <<>>, response |-> NULL,
               handled |-> "", stageResponse |-> NULL,
               geoRan |-> FALSE, geoThrew |-> FALSE]
NoTrace == [failed |-> {}, originFailed |-> FALSE, handlerCalls |-> 0,
            fallback |-> FALSE]

VARIABLES
    mwConfig,       \* the MiddlewareConfig the worker was created with
    pc,             \* where the wrapped fetch is in its code
    request,        \* the request being served
    remoteConfig,   \* what fetchConfig returned
    resolvedConfig, \* what mergeConfig returned
    context,        \* the ResponseContext
    pl,             \* runPipeline: stages evaluated, appliedRules, result
    finalResponse,  \* the response after the onResponse hook
    delivered,      \* what the wrapped fetch settled with
    bodyUsed,       \* ids of the Response objects whose body has been read
    nextId,         \* number of the next Response object
    instance,       \* BotMon.instance exists
    served,         \* requests received so far
    trace           \* which parts failed while serving the request

mwVars == <<mwConfig, pc, request, remoteConfig, resolvedConfig, context, pl,
            finalResponse, delivered, bodyUsed, nextId, instance, served, trace>>

Failed(what) == [trace EXCEPT !.failed = @ \cup {what}]

\* the settled fetch: a response, or a rejection
Responded(response) == [kind |-> "response", response |-> response]
Rejected == [kind |-> "rejected"]

\* A request arrives.
Receive ==
    /\ pc \in {"idle", "done"}
    /\ served < MaxRequests
    /\ \E r \in Requests : request' = r
    /\ served' = served + 1
    /\ pc' = "start"
    /\ remoteConfig' = NULL /\ resolvedConfig' = NULL /\ context' = NULL
    /\ pl' = NoPipeline /\ finalResponse' = NULL /\ delivered' = NULL
    /\ bodyUsed' = {} /\ nextId' = 1 /\ trace' = NoTrace
    /\ UNCHANGED <<mwConfig, instance, fetchVars, mergeVars, utilVars, clientVars, concVars>>

\* lines 98-102: without an API key the handler's result is returned as it
\* is; only a synchronous throw of the handler reaches the catch block
PassThrough ==
    /\ pc = "start" /\ mwConfig.apiKey = ""
    /\ \E o \in HandlerOutcomes(request.pathname) :
         /\ trace' = [trace EXCEPT !.handlerCalls = @ + 1,
                                   !.originFailed = @ \/ o \in HandlerFailures]
         /\ IF o = "throw" THEN pc' = "catch" /\ UNCHANGED <<delivered, nextId>>
            ELSE IF o = "reject" THEN pc' = "done" /\ delivered' = Rejected /\ UNCHANGED nextId
            ELSE /\ pc' = "done"
                 /\ delivered' = Responded(Numbered(OriginResponse(o), nextId))
                 /\ nextId' = nextId + 1
    /\ UNCHANGED <<mwConfig, request, remoteConfig, resolvedConfig, context, pl,
                   finalResponse, bodyUsed, instance, served, fetchVars, mergeVars, utilVars, clientVars, concVars>>

\* lines 104-120: fetchConfig(hostname, apiKey, apiBaseUrl, cacheTtl)
FetchConfigStep ==
    /\ pc = "start" /\ mwConfig.apiKey # ""
    /\ \E mode \in CacheModes, net \in MwNetOutcomes :
         LET r == fetchConfig(cache, now, sensitive, request.hostname, mwConfig.apiKey,
                              ApiBaseUrl, cacheTtl, mode, net)
         IN  /\ r.requests = 0 => net = CHOOSE n \in MwNetOutcomes : n.kind = "reject"
             /\ remoteConfig' = r.ret
             /\ cache' = r.cache
             /\ trace' = IF r.requests = 1 /\ ~(net.kind = "json" /\ ResponseOk(net.status))
                         THEN Failed("config") ELSE trace
    /\ pc' = "merge"
    /\ UNCHANGED <<mwConfig, request, resolvedConfig, context, pl, finalResponse,
                   delivered, bodyUsed, nextId, instance, served>>
    /\ UNCHANGED <<now, sensitive, clients, cacheTtl, lastCall, prevMiss, tracked,
                   mergeVars, utilVars, clientVars, concVars>>

\* line 123: mergeConfig(config.managedRules || {}, remoteConfig)
MergeStep ==
    /\ pc = "merge"
    /\ IF mergeConfigThrows(mwConfig.managedRules, remoteConfig)
       THEN /\ pc' = "catch"
            /\ trace' = Failed("merge")
            /\ UNCHANGED resolvedConfig
       ELSE /\ pc' = "origin"
            /\ resolvedConfig' = mergeConfig(mwConfig.managedRules, remoteConfig)
            /\ UNCHANGED trace
    /\ UNCHANGED <<mwConfig, request, remoteConfig, context, pl, finalResponse,
                   delivered, bodyUsed, nextId, instance, served, fetchVars, mergeVars, utilVars, clientVars, concVars>>

\* lines 126-133: await originFetch(), then buildContext
OriginStep ==
    /\ pc = "origin"
    /\ \E o \in HandlerOutcomes(request.pathname) :
         /\ trace' = [trace EXCEPT !.handlerCalls = @ + 1,
                                   !.originFailed = @ \/ o \in HandlerFailures]
         /\ IF o \in HandlerFailures
            THEN pc' = "catch" /\ UNCHANGED <<context, nextId>>
            ELSE /\ pc' = "robots-txt"
                 /\ context' = buildContext(request, Numbered(OriginResponse(o), nextId))
                 /\ nextId' = nextId + 1
    /\ UNCHANGED <<mwConfig, request, remoteConfig, resolvedConfig, pl, finalResponse,
                   delivered, bodyUsed, instance, served, fetchVars, mergeVars, utilVars, clientVars, concVars>>

\* stage loops that do not stop at a handled stage, or that let a stage's
\* exception escape; a GEO gate that ignores the agent classification
AfterStageNoReturn(name, handled) ==
    CASE name = "robots-txt" -> "sitemap"
      [] name = "sitemap"    -> "well-known"
      [] OTHER               -> "geo"
AfterStageThrowEscapes(name) == "catch"
\* a loop that goes on to GEO after a stage handled the request
AfterStage_ThenGeo(name, handled) ==
    IF handled THEN "geo"
    ELSE CASE name = "robots-txt" -> "sitemap"
           [] name = "sitemap"    -> "well-known"
           [] OTHER               -> "geo"
GeoAppliesToAll(cfg, ctx) == cfg.geo.enabled

\* the position after stage `name` in the stage loop
NextStage(name) ==
    CASE name = "robots-txt" -> "sitemap"
      [] name = "sitemap"    -> "well-known"
      [] OTHER               -> "geo"

\* lines 93-97: a stage that handled the request ends the pipeline, which
\* returns to the caller; otherwise the loop goes on
AfterStage(name, handled) == IF handled THEN "hook" ELSE NextStage(name)

\* lines 98-101: a stage that threw is logged and the loop goes on
AfterStageThrow(name) == NextStage(name)

\* lines 91-102: one iteration of the stage loop.  `o` is what the origin
\* handler does if the stage calls fetchOrigin.
StageStep(name) ==
    /\ pc = name
    /\ \E o \in HandlerOutcomes(request.pathname) :
         LET r == StageRun(name, context, resolvedConfig, o)
             answered == r.fetched /\ o \notin HandlerFailures
             read == /\ answered
                     /\ fetchOriginBody(o, IF name = "sitemap" THEN "xml" ELSE "text/plain")
                          # Body(NoDoc)
             fresh == nextId + (IF answered THEN 1 ELSE 0)
         IN  /\ ~r.fetched => o = "throw"
             /\ trace' = [trace EXCEPT
                            !.handlerCalls = @ + (IF r.fetched THEN 1 ELSE 0),
                            !.originFailed = @ \/ (r.fetched /\ o \in HandlerFailures),
                            !.failed = @ \cup (IF r.throws THEN {"stage"} ELSE {})]
             /\ bodyUsed' = bodyUsed \cup (IF read THEN {nextId} ELSE {})
             /\ IF r.throws
                THEN /\ pl' = [pl EXCEPT !.ran = Append(@, name), !.threw = @ \cup {name}]
                     /\ pc' = AfterStageThrow(name)
                     /\ nextId' = fresh
                ELSE IF r.handled
                THEN /\ pl' = [pl EXCEPT
                                 !.ran = Append(@, name),
                                 !.appliedRules = Append(@, name),
                                 !.handled = name,
                                 !.stageResponse = IF r.response.id = 0
                                                   THEN Numbered(r.response, fresh)
                                                   ELSE r.response,
                                 !.response = IF r.response.id = 0
                                              THEN Numbered(r.response, fresh)
                                              ELSE r.response]
                     /\ pc' = AfterStage(name, TRUE)
                     /\ nextId' = fresh + 1
                ELSE /\ pl' = [pl EXCEPT !.ran = Append(@, name)]
                     /\ pc' = AfterStage(name, FALSE)
                     /\ nextId' = fresh
    /\ UNCHANGED <<mwConfig, request, remoteConfig, resolvedConfig, context,
                   finalResponse, delivered, instance, served, fetchVars, mergeVars, utilVars, clientVars, concVars>>

RobotsTxtStage == StageStep("robots-txt")
SitemapStage == StageStep("sitemap")
WellKnownStage == StageStep("well-known")

\* line 108: GEO runs for AI agents when it is enabled
GeoApplies(cfg, ctx) == cfg.geo.enabled /\ ctx.isAiBot

\* lines 104-121: no stage handled the request
GeoStep ==
    /\ pc = "geo"
    /\ LET response == context.response
           pathname == context.url.pathname
           g == applyGeoOptimization(response, pathname, resolvedConfig.geo)
       IN  IF ~GeoApplies(resolvedConfig, context)
           THEN /\ pl' = [pl EXCEPT !.response = response]
                /\ UNCHANGED <<context, bodyUsed, nextId, trace>>
           ELSE IF applyGeoThrows(response, pathname, resolvedConfig.geo)
           THEN /\ pl' = [pl EXCEPT !.ran = Append(@, "geo"), !.geoRan = TRUE,
                                    !.geoThrew = TRUE, !.response = response]
                /\ bodyUsed' = bodyUsed \cup {response.id}
                /\ trace' = Failed("geo")
                /\ UNCHANGED <<context, nextId>>
           ELSE IF g.modified
           THEN /\ pl' = [pl EXCEPT !.ran = Append(@, "geo"), !.geoRan = TRUE,
                                    !.appliedRules = Append(@, "geo"),
                                    !.response = Numbered(g.response, nextId)]
                /\ context' = [context EXCEPT !.pageType = g.pageType]
                /\ bodyUsed' = bodyUsed \cup {response.id}
                /\ nextId' = nextId + 1
                /\ UNCHANGED trace
           ELSE /\ pl' = [pl EXCEPT !.ran = Append(@, "geo"), !.geoRan = TRUE,
                                    !.response = response]
                /\ bodyUsed' = bodyUsed \cup (IF g.read THEN {response.id} ELSE {})
                /\ UNCHANGED <<context, nextId, trace>>
    /\ pc' = "hook"
    /\ UNCHANGED <<mwConfig, request, remoteConfig, resolvedConfig, finalResponse,
                   delivered, instance, served, fetchVars, mergeVars, utilVars, clientVars, concVars>>

\* lines 142-152: the onResponse hook; when it throws the pipeline's
\* response is kept
HookStep ==
    /\ pc = "hook"
    /\ IF ~mwConfig.hook
       THEN /\ finalResponse' = pl.response
            /\ UNCHANGED <<context, nextId, trace>>
       ELSE /\ context' = [context EXCEPT !.response = pl.response]
            /\ \E h \in HookOutcomes :
                 CASE h = "same" ->
                        /\ finalResponse' = pl.response
                        /\ UNCHANGED <<nextId, trace>>
                   [] h = "new" ->
                        /\ finalResponse' =
                             Numbered(NewResponse("hook", 200, "text/html; charset=utf-8",
                                                  Body(RichDoc), {}), nextId)
                        /\ nextId' = nextId + 1
                        /\ UNCHANGED trace
                   [] OTHER ->
                        /\ finalResponse' = pl.response
                        /\ trace' = Failed("hook")
                        /\ UNCHANGED nextId
    /\ pc' = "analytics"
    /\ UNCHANGED <<mwConfig, request, remoteConfig, resolvedConfig, pl, delivered,
                   bodyUsed, instance, served, fetchVars, mergeVars, utilVars, clientVars, concVars>>

\* the BotMon constructor rejects an ingestUrl that is not HTTPS
ConstructorThrows(config) == config.ingestUrl # "https://analytics.botmon.io/ingest"

\* lines 154-182: BotMon.init(...) and sdk.track(...), errors swallowed
AnalyticsStep ==
    /\ pc = "analytics"
    /\ IF ~instance /\ ConstructorThrows(mwConfig)
       THEN trace' = Failed("analytics") /\ UNCHANGED instance
       ELSE instance' = TRUE /\ UNCHANGED trace
    /\ pc' = "cookie"
    /\ UNCHANGED <<mwConfig, request, remoteConfig, resolvedConfig, context, pl,
                   finalResponse, delivered, bodyUsed, nextId, served, fetchVars, mergeVars, utilVars, clientVars, concVars>>

\* line 105: config.sessionTracking?.enabled !== false
SessionEnabled(config) == Coalesce(config.sessionTracking, "enabled", TRUE)

\* lines 184-194: new Response(finalResponse.body, finalResponse) throws a
\* TypeError when that body has been read already
CookieStep ==
    /\ pc = "cookie"
    /\ IF ~SessionEnabled(mwConfig)
       THEN /\ delivered' = Responded(finalResponse)
            /\ pc' = "done"
            /\ UNCHANGED <<bodyUsed, nextId, trace>>
       ELSE IF finalResponse.id \in bodyUsed
       THEN /\ pc' = "catch"
            /\ trace' = Failed("cookie")
            /\ UNCHANGED <<delivered, bodyUsed, nextId>>
       ELSE /\ delivered' =
                 Responded(Numbered([finalResponse EXCEPT
                                       !.headers = @ \cup {<<"Set-Cookie", "__botmon_sid">>}],
                                    nextId))
            /\ bodyUsed' = bodyUsed \cup {finalResponse.id}
            /\ nextId' = nextId + 1
            /\ pc' = "done"
            /\ UNCHANGED trace
    /\ UNCHANGED <<mwConfig, request, remoteConfig, resolvedConfig, context, pl,
                   finalResponse, instance, served, fetchVars, mergeVars, utilVars, clientVars, concVars>>

\* lines 195-201: the catch block returns handler(request, env, ctx)
CatchStep ==
    /\ pc = "catch"
    /\ \E o \in HandlerOutcomes(request.pathname) :
         /\ trace' = [trace EXCEPT !.handlerCalls = @ + 1,
                                   !.originFailed = @ \/ o \in HandlerFailures,
                                   !.fallback = TRUE]
         /\ IF o \in HandlerFailures
            THEN delivered' = Rejected /\ UNCHANGED nextId
            ELSE /\ delivered' = Responded(Numbered(OriginResponse(o), nextId))
                 /\ nextId' = nextId + 1
    /\ pc' = "done"
    /\ UNCHANGED <<mwConfig, request, remoteConfig, resolvedConfig, context, pl,
                   finalResponse, bodyUsed, instance, served, fetchVars, mergeVars, utilVars, clientVars, concVars>>

MwInit ==
    /\ mwConfig \in MwConfigs
    /\ pc = "idle"
    /\ request = NULL /\ remoteConfig = NULL /\ resolvedConfig = NULL
    /\ context = NULL /\ pl = NoPipeline /\ finalResponse = NULL /\ delivered = NULL
    /\ bodyUsed = {} /\ nextId = 1 /\ instance = FALSE /\ served = 0
    /\ trace = NoTrace
    /\ cache = {} /\ now = 0 /\ sensitive = TRUE
    /\ clients = {[hostname |-> "a.example", apiKey |-> "key1"]}
    /\ cacheTtl = DEFAULT_CONFIG_CACHE_TTL
    /\ lastCall = NULL /\ prevMiss = NULL /\ tracked = NULL
    /\ MergeIdle /\ UtilIdle /\ ClientIdle /\ ConcIdle

MwNext ==
    \/ Receive \/ PassThrough \/ FetchConfigStep \/ MergeStep \/ OriginStep
    \/ RobotsTxtStage \/ SitemapStage \/ WellKnownStage \/ GeoStep
    \/ HookStep \/ AnalyticsStep \/ CookieStep \/ CatchStep

\* the middleware is not running while fetchConfig is examined on its own
MwIdle ==
    /\ mwConfig = NULL /\ pc = "off"
    /\ request = NULL /\ remoteConfig = NULL /\ resolvedConfig = NULL
    /\ context = NULL /\ pl = NULL /\ finalResponse = NULL /\ delivered = NULL
    /\ bodyUsed = {} /\ nextId = 1 /\ instance = FALSE /\ served = 0
    /\ trace = NULL

\* fetchConfig is not being examined on its own
FetchIdle ==
    /\ cache = {} /\ now = 0 /\ sensitive = TRUE /\ clients = {} /\ cacheTtl = 1
    /\ lastCall = NULL /\ prevMiss = NULL /\ tracked = NULL

vars == <<fetchVars, mwVars, mergeVars, utilVars, clientVars, concVars>>

(***************************************************************************)
(* Two requests in flight: the steps of one fetch call between its awaits  *)
(***************************************************************************)
RequestIds == {"A", "B"}

NoFlight ==
    [pc |-> "none", request |-> NULL, env |-> NULL, remoteConfig |-> NULL,
     origin |-> "", stageOrigin |-> "", context |-> NULL, appliedRules |-> <<>>,
     response |-> NULL, sentAs |-> ""]

ConcRequests ==
    { r \in Requests : /\ r.pathname \in {<<"robots.txt">>, <<"blog", "post">>}
                       /\ r.userAgent = <<"mozilla", "gptbot">> }
ConcEnvs == { [BOTMON_API_KEY |-> "key1"], [BOTMON_API_KEY |-> "key2"] }
ConcNetOutcomes ==
    { n \in MwNetOutcomes : n.body \in {BundleFull, NULL} /\ n.status \in {200, 404} }
ConcWorkers ==
    { c \in MwConfigs : /\ c.apiKey = "" /\ ~c.hook
                        /\ c.sessionTracking = [enabled |-> FALSE]
                        /\ c.managedRules = CodeRules
                        /\ c.ingestUrl = "https://analytics.botmon.io/ingest" }

\* line 99: config.apiKey || env?.BOTMON_API_KEY
ResolvedApiKey(config, env) ==
    IF config.apiKey # "" THEN config.apiKey ELSE Coalesce(env, "BOTMON_API_KEY", "")

\* pipeline.ts 35-122 as a function of the context, the resolved config and
\* what the origin does when a stage fetches it: appliedRules is a new array
\* of the call
runPipeline(ctx, cfg, outcome) ==
    LET ran(k) == StageRun(StageNames[k], ctx, cfg, outcome)
        handled == {k \in 1..Len(StageNames) : ~ran(k).throws /\ ran(k).handled}
        first == CHOOSE k \in handled : \A j \in handled : k <= j
        g == applyGeoOptimization(ctx.response, ctx.url.pathname, cfg.geo)
    IN  IF handled # {}
        THEN [response |-> ran(first).response, appliedRules |-> <<StageNames[first]>>,
              pageType |-> ctx.pageType]
        ELSE IF GeoApplies(cfg, ctx)
                /\ ~applyGeoThrows(ctx.response, ctx.url.pathname, cfg.geo)
                /\ g.modified
        THEN [response |-> g.response, appliedRules |-> <<"geo">>, pageType |-> g.pageType]
        ELSE [response |-> ctx.response, appliedRules |-> <<>>, pageType |-> ctx.pageType]

\* runPipeline(context, config, originFetch) on its own; the origin handler
\* is not asked again, no managed-file stage being on
RunPipelineCall ==
    /\ call.fn = "runPipeline" /\ result = NULL
    /\ result' = [value |-> runPipeline(call.context, call.config, "text")]
    /\ UNCHANGED call

\* the event loop enters fetch(request, env, ctx) for a new request
Arrive(id) ==
    /\ flight[id].pc = "none"
    /\ \E r \in ConcRequests, env \in ConcEnvs :
         flight' = [flight EXCEPT ![id] = [NoFlight EXCEPT !.pc = "config", !.request = r,
                                                            !.env = env]]
    /\ UNCHANGED <<worker, fetchVars, mwVars, mergeVars, utilVars, clientVars>>

\* lines 104-123: await fetchConfig(...) against the shared edge cache
ResolveConfig(id) ==
    /\ flight[id].pc = "config"
    /\ \E net \in ConcNetOutcomes :
         LET f == flight[id]
             r == fetchConfig(cache, now, sensitive, f.request.hostname,
                              ResolvedApiKey(worker, f.env), ApiBaseUrl, cacheTtl, "ok", net)
         IN  /\ r.requests = 0 => net = CHOOSE n \in ConcNetOutcomes : n.status = 404
             /\ cache' = r.cache
             /\ flight' = [flight EXCEPT ![id].pc = "origin", ![id].remoteConfig = r.ret]
    /\ UNCHANGED <<worker, now, sensitive, clients, cacheTtl, lastCall, prevMiss, tracked,
                   mwVars, mergeVars, utilVars, clientVars>>

\* lines 126-133: await originFetch() and buildContext; a handler that fails
\* sends the call to its catch block
CallOrigin(id) ==
    /\ flight[id].pc = "origin"
    /\ \E o \in OriginKindsFor(flight[id].request.pathname) \cup {"reject"} :
         flight' = IF o = "reject"
                   THEN [flight EXCEPT ![id].pc = "catch", ![id].origin = o]
                   ELSE [flight EXCEPT
                           ![id].pc = "pipeline", ![id].origin = o,
                           ![id].context = buildContext(flight[id].request,
                                                        Numbered(OriginResponse(o), 1))]
    /\ UNCHANGED <<worker, fetchVars, mwVars, mergeVars, utilVars, clientVars>>

\* lines 135-140: await runPipeline(context, resolvedConfig, originFetch)
RunPipeline(id) ==
    /\ flight[id].pc = "pipeline"
    /\ \E o \in OriginKindsFor(flight[id].request.pathname) :
         LET f == flight[id]
             p == runPipeline(f.context, mergeConfig(worker.managedRules, f.remoteConfig), o)
         IN  flight' = [flight EXCEPT ![id].pc = "analytics", ![id].stageOrigin = o,
                                      ![id].context.pageType = p.pageType,
                                      ![id].appliedRules = p.appliedRules,
                                      ![id].response = p.response]
    /\ UNCHANGED <<worker, fetchVars, mwVars, mergeVars, utilVars, clientVars>>

\* lines 154-194: BotMon.init({ apiKey, ... }), sdk.track(...), and the
\* response is returned (no hook, no session cookie)
TrackAndRespond(id) ==
    /\ flight[id].pc = "analytics"
    /\ LET apiKey == ResolvedApiKey(worker, flight[id].env)
           sdkNow == IF InstanceExists(singleton) THEN singleton
                     ELSE [id |-> made + 1, config |-> FinalConfig([apiKey |-> apiKey], NULL)]
       IN  /\ singleton' = sdkNow
           /\ made' = IF InstanceExists(singleton) THEN made ELSE made + 1
           /\ flight' = [flight EXCEPT ![id].pc = "done", ![id].sentAs = sdkNow.config.apiKey]
    /\ UNCHANGED <<worker, last, waiting, fetchVars, mwVars, mergeVars, utilVars>>

\* lines 195-201: the catch block returns handler(request, env, ctx)
Fallback(id) ==
    /\ flight[id].pc = "catch"
    /\ \E o \in OriginKindsFor(flight[id].request.pathname) :
         flight' = [flight EXCEPT ![id].pc = "done", ![id].stageOrigin = o,
                                  ![id].response = Numbered(OriginResponse(o), 2)]
    /\ UNCHANGED <<worker, fetchVars, mwVars, mergeVars, utilVars, clientVars>>

ConcInit ==
    /\ worker \in ConcWorkers
    /\ flight = [id \in RequestIds |-> NoFlight]

ConcNext ==
    \E id \in RequestIds :
        \/ Arrive(id) \/ ResolveConfig(id) \/ CallOrigin(id)
        \/ RunPipeline(id) \/ TrackAndRespond(id) \/ Fallback(id)

ConcAloneInit ==
    ConcInit /\ FetchIdle /\ MwIdle /\ MergeIdle /\ UtilIdle /\ ClientInit

SpecConcurrent == ConcAloneInit /\ [][ConcNext]_vars


FetchCallAlone == FetchCall /\ UNCHANGED <<mwVars, mergeVars, utilVars, clientVars, concVars>>
TickAlone == Tick /\ UNCHANGED <<mwVars, mergeVars, utilVars, clientVars, concVars>>
FetchNext == FetchCallAlone \/ TickAlone

FetchAloneInit == FetchInit /\ MwIdle /\ MergeIdle /\ UtilIdle /\ ClientIdle /\ ConcIdle

SpecFetch == FetchAloneInit /\ [][FetchNext]_vars

MergeAlone == Merge /\ UNCHANGED <<fetchVars, mwVars, utilVars, clientVars, concVars>>

MergeAloneInit == MergeInit /\ FetchIdle /\ MwIdle /\ UtilIdle /\ ClientIdle /\ ConcIdle

SpecMerge == MergeAloneInit /\ [][MergeAlone]_vars

SpecMiddleware == MwInit /\ [][MwNext]_vars

MergeRobotsTxtAlone == MergeRobotsTxtCall /\ UNCHANGED <<fetchVars, mwVars, mergeVars, clientVars, concVars>>
MergeSitemapXmlAlone == MergeSitemapXmlCall /\ UNCHANGED <<fetchVars, mwVars, mergeVars, clientVars, concVars>>
HandleRobotsTxtAlone == HandleRobotsTxtCall /\ UNCHANGED <<fetchVars, mwVars, mergeVars, clientVars, concVars>>
HandleSitemapAlone == HandleSitemapCall /\ UNCHANGED <<fetchVars, mwVars, mergeVars, clientVars, concVars>>
DetectPageTypeAlone == DetectPageTypeCall /\ UNCHANGED <<fetchVars, mwVars, mergeVars, clientVars, concVars>>
GlobToRegexAlone == GlobToRegexCall /\ UNCHANGED <<fetchVars, mwVars, mergeVars, clientVars, concVars>>
EnrichHeadingsAlone == EnrichHeadingsCall /\ UNCHANGED <<fetchVars, mwVars, mergeVars, clientVars, concVars>>
EnrichHeadingsAgainAlone == EnrichHeadingsAgainCall /\ UNCHANGED <<fetchVars, mwVars, mergeVars, clientVars, concVars>>
GenerateSchemaAlone == GenerateSchemaCall /\ UNCHANGED <<fetchVars, mwVars, mergeVars, clientVars, concVars>>
BuildEventAlone == BuildEventCall /\ UNCHANGED <<fetchVars, mwVars, mergeVars, clientVars, concVars>>
MergeGeoRulesAlone == MergeGeoRulesCall /\ UNCHANGED <<fetchVars, mwVars, mergeVars, clientVars, concVars>>
ApplyGeoOptimizationAlone == ApplyGeoOptimizationCall /\ UNCHANGED <<fetchVars, mwVars, mergeVars, clientVars, concVars>>
RunPipelineAlone == RunPipelineCall /\ UNCHANGED <<fetchVars, mwVars, mergeVars, clientVars, concVars>>
DetectAiBotAlone == DetectAiBotCall /\ UNCHANGED <<fetchVars, mwVars, mergeVars, clientVars, concVars>>
MergeRobotsTxtAgainAlone == MergeRobotsTxtAgainCall /\ UNCHANGED <<fetchVars, mwVars, mergeVars, clientVars, concVars>>
MergeSitemapXmlAgainAlone == MergeSitemapXmlAgainCall /\ UNCHANGED <<fetchVars, mwVars, mergeVars, clientVars, concVars>>
UtilNext ==
    \/ MergeRobotsTxtAlone \/ MergeSitemapXmlAlone
    \/ HandleRobotsTxtAlone \/ HandleSitemapAlone
    \/ DetectPageTypeAlone
    \/ GlobToRegexAlone
    \/ EnrichHeadingsAlone
    \/ EnrichHeadingsAgainAlone
    \/ GenerateSchemaAlone
    \/ BuildEventAlone
    \/ MergeGeoRulesAlone
    \/ ApplyGeoOptimizationAlone
    \/ RunPipelineAlone
    \/ DetectAiBotAlone
    \/ MergeRobotsTxtAgainAlone
    \/ MergeSitemapXmlAgainAlone

UtilAloneInit == UtilInit /\ FetchIdle /\ MwIdle /\ MergeIdle /\ ClientIdle /\ ConcIdle

SpecUtils == UtilAloneInit /\ [][UtilNext]_vars

RetryStartAlone == RetryStart /\ UNCHANGED <<fetchVars, mwVars, mergeVars, clientVars, concVars>>
RetryInvokeAlone == RetryInvoke /\ UNCHANGED <<fetchVars, mwVars, mergeVars, clientVars, concVars>>
RetryWakeAlone == RetryWake /\ UNCHANGED <<fetchVars, mwVars, mergeVars, clientVars, concVars>>
RetryNext == RetryStartAlone \/ RetryInvokeAlone \/ RetryWakeAlone

RetryAloneInit == RetryInit /\ FetchIdle /\ MwIdle /\ MergeIdle /\ ClientIdle /\ ConcIdle

SpecRetry == RetryAloneInit /\ [][RetryNext]_vars

\* the event loop runs every continuation and every timer that is due
SpecRetryFair == SpecRetry /\ WF_vars(RetryNext)

InitAlone == InitCall /\ UNCHANGED <<fetchVars, mwVars, mergeVars, utilVars, concVars>>
DisposeAlone == DisposeCall /\ UNCHANGED <<fetchVars, mwVars, mergeVars, utilVars, concVars>>
TrackAlone == TrackCall /\ UNCHANGED <<fetchVars, mwVars, mergeVars, utilVars, concVars>>
SendEventSettlesAlone == SendEventSettles /\ UNCHANGED <<fetchVars, mwVars, mergeVars, utilVars, concVars>>
CatchHandlerAlone == CatchHandler /\ UNCHANGED <<fetchVars, mwVars, mergeVars, utilVars, concVars>>
ClientNext ==
    \/ InitAlone \/ DisposeAlone \/ TrackAlone
    \/ SendEventSettlesAlone \/ CatchHandlerAlone

ClientAloneInit == ClientInit /\ FetchIdle /\ MwIdle /\ MergeIdle /\ UtilIdle /\ ConcIdle

SpecClient == ClientAloneInit /\ [][ClientNext]_vars

(***************************************************************************)
(* Remote config client: properties                                        *)
(***************************************************************************)
\* the call just made went to the network and got `status` with a JSON body
Answered(status) ==
    /\ lastCall # NULL
    /\ lastCall.requests = 1
    /\ lastCall.net.kind = "json"
    /\ lastCall.net.status = status

\* the call just made is a later call by the caller of the tracked answer,
\* within that answer's TTL and with the cache working in between
LaterCallOf(status) ==
    /\ tracked # NULL
    /\ tracked.status = status
    /\ tracked.later
    /\ now < tracked.time + cacheTtl
    /\ lastCall # NULL
    /\ lastCall.hostname = tracked.hostname
    /\ lastCall.apiKey = tracked.apiKey

\* the cache holds `text` under the key of the call just made, stored now
\* with max-age = the configured TTL
StoredNow(text) ==
    \E e \in cache :
        /\ e.url = cacheUrl(ApiBaseUrl, lastCall.hostname)
        /\ e.apiKey = lastCall.apiKey
        /\ e.text = text
        /\ e.maxAge = cacheTtl
        /\ e.storedAt = now

\* C7: a 404 answer makes fetchConfig return null and store the null
\* sentinel with max-age = TTL; every later call for the same hostname and
\* API key within the TTL returns null from the cache, with no network
\* request.
C7_NotFoundCachedForTtl ==
    /\ Answered(404) =>
         /\ lastCall.ret = NULL
         /\ ~CacheWriteFails(lastCall.mode) => StoredNow(NullText)
    /\ LaterCallOf(404) => lastCall.ret = NULL /\ lastCall.requests = 0

C7_Witness ==
    /\ LaterCallOf(404)
    /\ now > tracked.time
    /\ lastCall.requests = 0
    /\ lastCall.ret = NULL

\* C8: a non-2xx answer other than 404, or a failed request, makes
\* fetchConfig return null and leave the cache as it was; the next call by
\* the same caller goes to the network again, and no cache entry ever stems
\* from a failed fetch.
C8_FailureNotCached ==
    /\ (lastCall # NULL /\ lastCall.requests = 1 /\ ~Cacheable(lastCall.net)) =>
          lastCall.ret = NULL /\ ~lastCall.cacheChanged
    /\ (lastCall # NULL /\ lastCall.afterFailedMiss) => lastCall.requests = 1
    /\ \A e \in cache : Cacheable(e.from)

C8_Witness ==
    /\ lastCall # NULL
    /\ lastCall.afterFailedMiss
    /\ lastCall.requests = 1
    /\ lastCall.net.status = 500
    /\ cache # {}

\* C9: a 2xx answer makes fetchConfig return the parsed bundle and cache it
\* under the caller's key with max-age = TTL; every later call for the same
\* hostname and API key within the TTL returns an equal bundle from the
\* cache, with no network request.
C9_SuccessCachedForTtl ==
    /\ Answered(200) =>
         /\ lastCall.ret = lastCall.net.body
         /\ ~CacheWriteFails(lastCall.mode) => StoredNow(JSONstringify(lastCall.net.body))
    /\ LaterCallOf(200) => lastCall.ret = tracked.value /\ lastCall.requests = 0

C9_Witness ==
    /\ LaterCallOf(200)
    /\ now > tracked.time
    /\ lastCall.requests = 0
    /\ lastCall.ret = BundleB


(***************************************************************************)
(* Pipeline and middleware: properties (SpecMiddleware)                    *)
(***************************************************************************)
Applied(name) == \E i \in 1..Len(pl.appliedRules) : pl.appliedRules[i] = name
Ran(name) == \E i \in 1..Len(pl.ran) : pl.ran[i] = name
StagePcs == {"robots-txt", "sitemap", "well-known"}
StageIndex(name) == CHOOSE i \in 1..Len(StageNames) : StageNames[i] = name
Readable(response) == response.id \notin bodyUsed
HasGeoHeaders(response) ==
    \E h \in response.headers : h[1] \in {"X-BotMon-GEO", "X-BotMon-PageType"}
IsPage(response) ==
    \/ ContentTypeIncludes(response.contentType, "text/html")
    \/ ContentTypeIncludes(response.contentType, "text/plain")
    \/ ContentTypeIncludes(response.contentType, "text/markdown")

\* C1: the managed-file stages are evaluated in the order robots-txt,
\* sitemap, well-known; once a stage has returned a response the pipeline
\* has returned with that response, no later stage and no content
\* optimization has run, and appliedRules is the one-element list with that
\* stage's name.
C1_StageOrderShortCircuit ==
    LET stagesRan == SelectSeq(pl.ran, LAMBDA n : n # "geo")
    IN  /\ stagesRan = SubSeq(StageNames, 1, Len(stagesRan))
        /\ pl.geoRan => pl.ran = StageNames \o <<"geo">>
        /\ pl.handled # "" =>
             /\ pc \notin StagePcs \cup {"geo"}
             /\ pl.ran = SubSeq(StageNames, 1, StageIndex(pl.handled))
             /\ ~pl.geoRan
             /\ pl.appliedRules = <<pl.handled>>
             /\ pl.response = pl.stageResponse

C1_Witness ==
    /\ pc = "done"
    /\ pl.handled = "sitemap"
    /\ pl.ran = <<"robots-txt", "sitemap">>
    /\ pl.response.by = "sitemap"
    /\ resolvedConfig.geo.enabled /\ context.isAiBot

\* C2: when a managed-file stage throws, runPipeline does not throw: the
\* stage's name is not in appliedRules, the next stage in the order is
\* evaluated, and when the pipeline returns with nothing applied it returns
\* the origin response held in the context.
C2_StageThrowIsolated ==
    \A name \in pl.threw :
        /\ ~Applied(name)
        /\ \/ pl.ran[Len(pl.ran)] = name /\ pc = NextStage(name)
           \/ StageIndex(name) < Len(StageNames) /\ Ran(StageNames[StageIndex(name) + 1])
           \/ StageIndex(name) = Len(StageNames) /\ pc \notin StagePcs \cup {"geo"}
        /\ pc = "catch" => "cookie" \in trace.failed
        /\ pc = "hook" /\ pl.appliedRules = <<>> => pl.response = context.response

C2_Witness ==
    /\ pc = "hook"
    /\ pl.threw = {"robots-txt"}
    /\ Ran("sitemap") /\ Ran("well-known")
    /\ pl.appliedRules = <<>>
    /\ pl.response = context.response

\* C3: content optimization runs only when no managed-file stage handled
\* the request, geo.enabled is true and the request is from an AI agent;
\* otherwise, when no stage handled the request, runPipeline returns the
\* context's origin response itself, body unread, without GEO headers and
\* without "geo" in appliedRules.
C3_GeoOnlyForAgents ==
    /\ pl.geoRan =>
         pl.handled = "" /\ resolvedConfig.geo.enabled /\ context.isAiBot
    /\ /\ pc = "hook"
       /\ pl.handled = ""
       /\ ~(resolvedConfig.geo.enabled /\ context.isAiBot)
       => /\ pl.response = context.response
          /\ Readable(pl.response)
          /\ ~HasGeoHeaders(pl.response)
          /\ ~Applied("geo")

C3_Witness ==
    /\ pc = "hook"
    /\ pl.handled = ""
    /\ resolvedConfig.geo.enabled /\ ~context.isAiBot
    /\ context.request.userAgent # <<>>
    /\ context.response.body = Body(RichDoc)
    /\ pl.response = context.response
    /\ Readable(pl.response)

\* C4: when content optimization ran on an HTML or text response and
\* reported no modification, the response runPipeline returns carries the
\* origin body and that body has not been consumed.
C4_UnmodifiedGeoKeepsBody ==
    /\ pc = "hook"
    /\ pl.geoRan /\ ~pl.geoThrew /\ ~Applied("geo")
    /\ IsPage(context.response)
    => /\ pl.response.body = context.response.body
       /\ Readable(pl.response)

\* C5: when applyGeoOptimization throws, runPipeline returns the unmodified
\* origin response with its body still readable, and "geo" is not in
\* appliedRules.
C5_GeoThrowKeepsBody ==
    pc = "hook" /\ pl.geoThrew =>
        /\ pl.response = context.response
        /\ ~Applied("geo")
        /\ Readable(pl.response)

\* C6: as long as no invocation of the origin handler fails, the wrapped
\* fetch settles with a response the requester can read, and when config
\* merging or cookie handling failed that response is one the origin
\* handler produced.
C6_FailOpen ==
    pc = "done" /\ ~trace.originFailed =>
        /\ delivered.kind = "response"
        /\ Readable(delivered.response)
        /\ trace.failed \cap {"merge", "cookie"} # {} => delivered.response.by = "origin"

(***************************************************************************)
(* Config merger: properties (SpecMerge)                                   *)
(***************************************************************************)
\* the remote bundle is null or has no section that is an object
NoSections(remote) ==
    remote = NULL \/ \A k \in DOMAIN remote : remote[k] = NULL

\* the value given in code for section.field, else the built-in default
CodeValue(sdk, section, field, builtin) ==
    IF HasObj(sdk, section) /\ field \in DOMAIN sdk[section]
    THEN sdk[section][field] ELSE builtin

\* C10: with a remote bundle that is null or has no sections, mergeConfig
\* returns the code-level configuration: each field is the value given in
\* code, else the built-in default (robotsTxt disabled/append, sitemap
\* disabled/merge, wellKnown disabled with the files listed in code, geo
\* disabled with the three inject flags true and the rules given in code).
C10_NoRemoteGivesCodeConfig ==
    merged # NULL /\ NoSections(remoteBundle) =>
        /\ merged.robotsTxt = [enabled |-> CodeValue(sdkConfig, "robotsTxt", "enabled", FALSE),
                               mode |-> CodeValue(sdkConfig, "robotsTxt", "mode", "append")]
        /\ merged.sitemap = [enabled |-> CodeValue(sdkConfig, "sitemap", "enabled", FALSE),
                             mode |-> CodeValue(sdkConfig, "sitemap", "mode", "merge")]
        /\ merged.wellKnown.enabled = CodeValue(sdkConfig, "wellKnown", "enabled", FALSE)
        /\ DOMAIN merged.wellKnown.files = DOMAIN CodeValue(sdkConfig, "wellKnown", "files", <<>>)
        /\ \A f \in DOMAIN merged.wellKnown.files :
             merged.wellKnown.files[f].mode = sdkConfig.wellKnown.files[f].mode
        /\ merged.geo = [enabled |-> CodeValue(sdkConfig, "geo", "enabled", FALSE),
                         injectJsonLd |-> CodeValue(sdkConfig, "geo", "injectJsonLd", TRUE),
                         injectSummary |-> CodeValue(sdkConfig, "geo", "injectSummary", TRUE),
                         enrichHeadings |-> CodeValue(sdkConfig, "geo", "enrichHeadings", TRUE),
                         rules |-> CodeValue(sdkConfig, "geo", "rules", <<>>)]

C10_Witness ==
    /\ merged # NULL
    /\ remoteBundle = NULL
    /\ DOMAIN sdkConfig = {"robotsTxt", "wellKnown"}
    /\ merged.robotsTxt = [enabled |-> TRUE, mode |-> "replace"]
    /\ merged.sitemap = [enabled |-> FALSE, mode |-> "merge"]
    /\ DOMAIN merged.wellKnown.files = {"llms.txt", "security.txt"}
    /\ merged.geo.injectSummary /\ merged.geo.rules = <<>>

\* { ...local, ...remote }: the remote entry's fields over the local entry's
FieldMerge(local, remote) ==
    [k \in DOMAIN local \cup DOMAIN remote |->
       IF k \in DOMAIN remote THEN remote[k] ELSE local[k]]

\* the rules / files each side of a merge brings
CodeGeoRules == CodeValue(sdkConfig, "geo", "rules", <<>>)
RemoteGeoRules == Coalesce(remoteBundle.geo, "rules", <<>>)
CodeFiles == SdkFiles(sdkConfig)
RemoteFiles == remoteBundle.wellKnown.files

\* C11: a wellKnown file (by filename) or GEO rule (by urlPattern) present in
\* code and in the remote bundle is merged field by field, remote winning, so
\* a field the remote entry omits keeps the code entry's value; an entry
\* present on one side only passes through unchanged.
C11_EntriesMergedFieldByField ==
    /\ merged # NULL /\ merged # Thrown /\ HasObj(remoteBundle, "geo") =>
         /\ \A i \in 1..Len(CodeGeoRules) :
              LET o == LastWithPattern(RemoteGeoRules, CodeGeoRules[i].urlPattern)
              IN  merged.geo.rules[i] =
                    IF o = 0 THEN CodeGeoRules[i]
                    ELSE FieldMerge(CodeGeoRules[i], RemoteGeoRules[o])
         /\ \A j \in 1..Len(RemoteGeoRules) :
              LastWithPattern(CodeGeoRules, RemoteGeoRules[j].urlPattern) = 0 =>
                \E k \in 1..Len(merged.geo.rules) : merged.geo.rules[k] = RemoteGeoRules[j]
    /\ merged # NULL /\ merged # Thrown /\ HasObj(remoteBundle, "wellKnown") =>
         \A f \in DOMAIN merged.wellKnown.files :
            merged.wellKnown.files[f] =
              IF f \in DOMAIN CodeFiles /\ f \in DOMAIN RemoteFiles
              THEN FieldMerge(CodeFiles[f], RemoteFiles[f])
              ELSE IF f \in DOMAIN CodeFiles THEN CodeFiles[f]
              ELSE FieldMerge([mode |-> "replace"], RemoteFiles[f])

\* the section of the remote bundle, or an empty object when it is absent
RemoteSection(name) ==
    IF HasObj(remoteBundle, name) THEN remoteBundle[name] ELSE EmptyObject

\* the value a scalar field resolves to: the remote one when supplied, else
\* the value given in code, else the built-in default
Resolved(section, field, builtin) ==
    Coalesce(RemoteSection(section), field, CodeValue(sdkConfig, section, field, builtin))

\* C12: for every remote bundle, whichever fields of whichever sections it
\* leaves out, mergeConfig returns without throwing, a field the remote
\* omits resolves to the code-level value and a field it supplies takes the
\* remote value.
C12_MergeNullSafePerField ==
    merged # NULL =>
        /\ merged # Thrown
        /\ \A s \in {"robotsTxt", "sitemap"} :
             /\ merged[s].enabled = Resolved(s, "enabled", DEFAULTS[s].enabled)
             /\ merged[s].mode = Resolved(s, "mode", DEFAULTS[s].mode)
             /\ Has(merged[s], "content") <=> Has(RemoteSection(s), "content")
             /\ Has(merged[s], "content") => merged[s].content = remoteBundle[s].content
        /\ merged.wellKnown.enabled = Resolved("wellKnown", "enabled", FALSE)
        /\ \A f \in {"enabled", "injectJsonLd", "injectSummary", "enrichHeadings"} :
             merged.geo[f] = Resolved("geo", f, DEFAULTS.geo[f])
        /\ ~Has(RemoteSection("geo"), "rules") => merged.geo.rules = CodeGeoRules

(***************************************************************************)
(* Merge utilities: properties (SpecUtils)                                 *)
(***************************************************************************)
Returned(fn) == call # NULL /\ call.fn = fn /\ result # NULL

\* the lower-cased agents of a list of blocks
AgentKeys(blocks) == {ToLowerCase(blocks[i].userAgent) : i \in 1..Len(blocks)}

\* the blocks of the two inputs and of the output of a mergeRobotsTxt call
OriginBlocks == parseRobotsTxt(call.originContent)
ManagedBlocks == parseRobotsTxt(call.botmonContent)
OutputBlocks == parseRobotsTxt(result.value)

\* C13: the output of mergeRobotsTxt contains every agent block of the
\* managed text with the managed directives; the origin blocks whose agent
\* (compared case-insensitively) the managed text does not override are in
\* the output unchanged and in their original order, with the managed-only
\* agents after them; and no two output blocks are for the same agent.
C13_RobotsMergedByAgent ==
    Returned("mergeRobotsTxt") =>
        /\ \A i \in 1..Len(ManagedBlocks) :
             \E k \in 1..Len(OutputBlocks) : OutputBlocks[k] = ManagedBlocks[i]
        /\ SelectSeq(OutputBlocks,
                     LAMBDA b : ToLowerCase(b.userAgent) \notin AgentKeys(ManagedBlocks))
             = SelectSeq(OriginBlocks,
                         LAMBDA b : ToLowerCase(b.userAgent) \notin AgentKeys(ManagedBlocks))
        /\ \A k, l \in 1..Len(OutputBlocks) :
             /\ ToLowerCase(OutputBlocks[k].userAgent) \in AgentKeys(OriginBlocks)
             /\ ToLowerCase(OutputBlocks[l].userAgent) \notin AgentKeys(OriginBlocks)
             => k < l
        /\ \A k, l \in 1..Len(OutputBlocks) :
             ToLowerCase(OutputBlocks[k].userAgent) = ToLowerCase(OutputBlocks[l].userAgent)
             => k = l

\* the URLs of the <loc> elements of a sitemap, in document order
LocValues(xml) ==
    LET locs == SelectSeq(xml, LAMBDA e : e.tag = "loc" /\ Captured(e.text) # "")
    IN  [i \in 1..Len(locs) |-> Captured(locs[i].text)]

\* the position at which a URL is first seen in a list
FirstSeen(urls, url) == CHOOSE i \in 1..Len(urls) : urls[i] = url /\ \A j \in 1..(i - 1) : urls[j] # url

InputLocs == LocValues(call.originXml) \o LocValues(call.botmonXml)
OutputLocs ==
    LET locs == SelectSeq(result.value, LAMBDA e : e.tag = "loc")
    IN  [i \in 1..Len(locs) |-> locs[i].text]

\* C14: the <loc> entries of mergeSitemapXml's output are exactly the URLs
\* of the <loc> elements of the two inputs, each once, in the order in
\* which they are first seen reading the origin document and then the
\* managed one (so origin URLs come before managed-only URLs).
C14_SitemapUnionFirstSeen ==
    Returned("mergeSitemapXml") =>
        /\ {OutputLocs[k] : k \in 1..Len(OutputLocs)} = {InputLocs[i] : i \in 1..Len(InputLocs)}
        /\ \A k, l \in 1..Len(OutputLocs) : OutputLocs[k] = OutputLocs[l] => k = l
        /\ \A k, l \in 1..Len(OutputLocs) :
             k < l => FirstSeen(InputLocs, OutputLocs[k]) < FirstSeen(InputLocs, OutputLocs[l])

\* a URL in both documents, one padded with white space in the origin, one
\* managed-only
C14_Witness ==
    /\ Returned("mergeSitemapXml")
    /\ LocValues(call.originXml) = <<"b", "a">>
    /\ LocValues(call.botmonXml) = <<"c", "a", "b">>
    /\ OutputLocs = <<"b", "a", "c">>

\* a handleRobotsTxt or handleSitemap call has returned or thrown
HandlerReturned == Returned("handleRobotsTxt") \/ Returned("handleSitemap")

\* C15: in replace mode handleRobotsTxt and handleSitemap return a 200
\* response whose body is the configured content alone (empty when none is
\* configured) with X-BotMon-Mode: replace, without calling fetchOrigin; in
\* disabled mode they return context.response itself, without calling
\* fetchOrigin either.
C15_ReplaceAndDisabled ==
    HandlerReturned =>
        /\ call.config.mode = "replace" =>
             /\ ~result.value.throws /\ ~result.value.fetched
             /\ result.value.response.status = 200
             /\ result.value.response.body.managed = Coalesce(call.config, "content", "")
             /\ result.value.response.body.origin = Body(NoDoc)
             /\ result.value.response.body.how = "replace"
             /\ <<"X-BotMon-Mode", "replace">> \in result.value.response.headers
        /\ call.config.mode = "disabled" =>
             /\ ~result.value.throws /\ ~result.value.fetched
             /\ result.value.response = call.context.response

\* a replace-mode sitemap call with content whose origin would have answered
\* with XML, and a disabled robots call
C15_Witness ==
    \/ /\ Returned("handleSitemap") /\ call.config.mode = "replace"
       /\ Has(call.config, "content") /\ call.fetchOrigin = "xml"
       /\ result.value.response.by = "sitemap"
    \/ /\ Returned("handleRobotsTxt") /\ call.config.mode = "disabled"
       /\ result.value.response.by = "origin"

(***************************************************************************)
(* Middleware: managed files and the origin handler (SpecMiddleware)       *)
(***************************************************************************)
\* the mode of the managed-file stage `name` for the request being served
StageMode(name) ==
    CASE name = "robots-txt" -> resolvedConfig.robotsTxt.mode
      [] name = "sitemap" -> resolvedConfig.sitemap.mode
      [] OTHER -> Coalesce(PropertyOf(resolvedConfig.wellKnown.files, request.pathname[2]),
                           "mode", "")

\* a managed-file stage in replace mode has served the current request
ServedByReplace ==
    /\ pl # NULL /\ pl.handled # ""
    /\ StageMode(pl.handled) = "replace"

\* C16: the origin handler is called lazily: a request that a replace-mode
\* robots.txt, sitemap or .well-known stage serves never reaches the origin
\* handler.
C16_OriginCalledLazily ==
    ServedByReplace => trace.handlerCalls = 0

\* the origin a handler call is given answers 2xx with the content type the
\* handler wants (text/plain for robots.txt, XML for a sitemap)
OriginUsable ==
    \/ call.fn = "handleRobotsTxt" /\ call.fetchOrigin = "text"
    \/ call.fn = "handleSitemap" /\ call.fetchOrigin = "xml"

\* `lines` ends with `tail`, up to a final line break
EndsWith(lines, tail) ==
    LET t == TrimEnd(lines)
    IN  Len(t) >= Len(tail) /\ SubSeq(t, Len(t) - Len(tail) + 1, Len(t)) = tail

\* C17: in append and merge modes (content a string or absent), when the
\* origin fetch throws or rejects, answers non-2xx, or answers with the wrong
\* content type, the handler raises no error and answers 200 from the managed
\* content alone, the origin counting as empty; when the origin answers 2xx
\* with the right content type its content is included, and a robots.txt in
\* append mode has the origin text first and the managed content last.
C17_OriginFailureIsEmptyInput ==
    /\ HandlerReturned
    /\ call.config.mode \in {"append", "merge"}
    /\ Coalesce(call.config, "content", "") # NumericContent
    => /\ ~result.value.throws /\ result.value.fetched
       /\ result.value.response.status = 200
       /\ result.value.response.body.managed = Coalesce(call.config, "content", "")
       /\ ~OriginUsable =>
            /\ result.value.response.body.origin = Body(NoDoc)
            /\ call.fn = "handleRobotsTxt" =>
                 parseRobotsTxt(RobotsBodyText(result.value.response.body))
                   = parseRobotsTxt(ManagedRobotsLines(Coalesce(call.config, "content", "")))
       /\ OriginUsable =>
            /\ result.value.response.body.origin = OriginResponse(call.fetchOrigin).body
            /\ call.fn = "handleRobotsTxt" /\ call.config.mode = "append" =>
                 LET text == RobotsBodyText(result.value.response.body)
                     origin == OriginRobotsLines(OriginResponse(call.fetchOrigin).body)
                 IN  /\ SubSeq(text, 1, Len(TrimEnd(origin))) = TrimEnd(origin)
                     /\ EndsWith(text, ManagedRobotsLines(Coalesce(call.config, "content", "")))

\* a robots.txt append whose origin answered 200 with HTML, and one whose
\* origin answered with a robots.txt
C17_Witness ==
    /\ Returned("handleRobotsTxt") /\ call.config.mode = "append"
    /\ Coalesce(call.config, "content", "") = "managed"
    /\ \/ /\ call.fetchOrigin = "rich"
          /\ RobotsBodyText(result.value.response.body)
               = <<BlankLine, Separator, AgentLine("gptbot"), RuleLine("Disallow: /"), BlankLine>>
       \/ /\ call.fetchOrigin = "text"
          /\ RobotsBodyText(result.value.response.body)
               = <<AgentLine("*"), RuleLine("Allow: /"), BlankLine, Separator,
                   AgentLine("gptbot"), RuleLine("Disallow: /"), BlankLine>>

\* the request is for /.well-known/<name> and the well-known stage has run
WellKnownStageRan ==
    /\ pl # NULL /\ Ran("well-known")
    /\ Head(request.pathname) = ".well-known"

\* <name> is a filename configured in wellKnown.files (an entry of the
\* resolved files map) with a mode other than disabled, wellKnown enabled
WellKnownConfigured ==
    /\ resolvedConfig.wellKnown.enabled
    /\ request.pathname[2] \in DOMAIN resolvedConfig.wellKnown.files
    /\ resolvedConfig.wellKnown.files[request.pathname[2]].mode # "disabled"

\* C18: a request to /.well-known/<name> is intercepted only if wellKnown is
\* enabled, <name> is a filename configured in wellKnown.files and its mode
\* is not disabled; for any other filename the well-known stage returns no
\* response, 'well-known' is not added to appliedRules and the origin
\* response passes through.
C18_WellKnownOnlyConfigured ==
    WellKnownStageRan /\ ~WellKnownConfigured =>
        /\ pl.handled # "well-known"
        /\ ~Applied("well-known")
        /\ pc = "hook" /\ ~GeoApplies(resolvedConfig, context) => pl.response = context.response

(***************************************************************************)
(* Middleware: GEO markers (SpecMiddleware)                                *)
(***************************************************************************)
\* runPipeline has returned, and the response it returned has a body other
\* than the origin's: content optimization modified the body
PipelineReturned == pc = "hook"
BodyModified == pl.handled = "" /\ pl.response.body # context.response.body

\* the page type detectPageType gives for the request: from the document for
\* HTML, from the URL and the rules alone for text
DetectedPageType ==
    detectPageType(context.url.pathname,
                   IF ContentTypeIncludes(context.response.contentType, "text/html")
                   THEN context.response.body.doc ELSE NoDoc,
                   resolvedConfig.geo.rules)

\* C19: the response runPipeline returns carries X-BotMon-GEO: applied and
\* X-BotMon-PageType: <detected type> if and only if content optimization
\* modified the body; exactly then 'geo' is in appliedRules and
\* context.pageType is the detected page type; otherwise there is no GEO
\* header, no 'geo' in appliedRules and no context.pageType.
C19_GeoMarkersIffModified ==
    PipelineReturned =>
        /\ BodyModified =>
             /\ <<"X-BotMon-GEO", "applied">> \in pl.response.headers
             /\ <<"X-BotMon-PageType", DetectedPageType>> \in pl.response.headers
             /\ Applied("geo")
             /\ context.pageType = DetectedPageType
        /\ ~BodyModified =>
             /\ ~HasGeoHeaders(pl.response)
             /\ ~Applied("geo")
             /\ context.pageType = "none"

\* an HTML page of an AI agent that a rule types as a product, with JSON-LD
\* injected
C19_Witness ==
    /\ PipelineReturned /\ BodyModified
    /\ context.response.body = Body(RichDoc)
    /\ "json-ld" \in pl.response.body.edits
    /\ context.pageType = "product"
    /\ <<"X-BotMon-PageType", "product">> \in pl.response.headers

(***************************************************************************)
(* Page type detection: properties (SpecUtils)                             *)
(***************************************************************************)
\* the first rule of the call, in list order, whose urlPattern matches the
\* path; 0 when none matches
FirstMatchingRule ==
    LET hits == {i \in 1..Len(call.geoRules) :
                   GlobMatches(call.geoRules[i].urlPattern, call.pathname)}
    IN  IF hits = {} THEN 0 ELSE CHOOSE i \in hits : \A j \in hits : i <= j

\* the tiers a detectPageType call satisfies
RuleTier == FirstMatchingRule # 0 /\ Has(call.geoRules[FirstMatchingRule], "pageType")
UrlTier == Head(call.pathname) \in {"products", "blog"} /\ Len(call.pathname) >= 2
MetaTier == call.html.metaType # "none"
ContentTier == call.html.heuristicType # "none"

\* C20: detectPageType returns the result of the first satisfied tier in the
\* order: the first matching rule when it has a pageType (high), the
\* URL-pattern table (medium), meta tags (high), content heuristics, the
\* default generic (low); signals of later tiers do not change the result,
\* and rules are tried in list order, the first matching urlPattern winning.
C20_FirstSatisfiedTier ==
    Returned("detectPageType") =>
        /\ RuleTier =>
             result.value = [pageType |-> call.geoRules[FirstMatchingRule].pageType,
                             confidence |-> "high", source |-> "geo-rule"]
        /\ ~RuleTier /\ UrlTier =>
             result.value = [pageType |-> IF Head(call.pathname) = "blog"
                                          THEN "article" ELSE "product",
                             confidence |-> "medium", source |-> "url-pattern"]
        /\ ~RuleTier /\ ~UrlTier /\ MetaTier =>
             result.value = [pageType |-> call.html.metaType,
                             confidence |-> "high", source |-> "meta-tag"]
        /\ ~RuleTier /\ ~UrlTier /\ ~MetaTier /\ ContentTier =>
             /\ result.value.pageType = call.html.heuristicType
             /\ result.value.source = "content-heuristic"
        /\ ~RuleTier /\ ~UrlTier /\ ~MetaTier /\ ~ContentTier =>
             result.value = [pageType |-> "generic", confidence |-> "low",
                             source |-> "default"]

\* two rules match /products/widget and the first says pricing, the URL
\* table says product, the meta tags say article and the content says faq
C20_Witness ==
    /\ Returned("detectPageType")
    /\ call.pathname = <<"products", "widget">>
    /\ call.geoRules = <<RulePricing, RuleP1>>
    /\ call.html.metaType = "article" /\ call.html.heuristicType = "faq"
    /\ result.value = [pageType |-> "pricing", confidence |-> "high", source |-> "geo-rule"]

(***************************************************************************)
(* Glob patterns: properties (SpecUtils)                                   *)
(***************************************************************************)
\* what a glob pattern describes: "**" any number of characters, "*" one or
\* more characters other than "/", any other character itself; the whole
\* path, never a prefix
RECURSIVE GlobDescribes(_, _)
GlobDescribes(pattern, path) ==
    IF pattern = <<>> THEN path = <<>>
    ELSE IF Len(pattern) >= 2 /\ pattern[1] = "*" /\ pattern[2] = "*"
    THEN \E k \in 0..Len(path) :
            GlobDescribes(Tail(Tail(pattern)), SubSeq(path, k + 1, Len(path)))
    ELSE IF Head(pattern) = "*"
    THEN \E k \in 1..Len(path) :
            /\ \A i \in 1..k : path[i] # "/"
            /\ GlobDescribes(Tail(pattern), SubSeq(path, k + 1, Len(path)))
    ELSE /\ path # <<>> /\ Head(path) = Head(pattern)
         /\ GlobDescribes(Tail(pattern), Tail(path))

\* C21: globToRegex(pattern) accepts a path exactly when the pattern
\* describes the entire path: `*` is one non-empty segment that never
\* crosses "/", `**` is any number of segments, and every other character of
\* the pattern, regex metacharacters such as "." and "?" included, matches
\* only itself.
C21_GlobMatchesWholePath ==
    Returned("globToRegex") =>
        (result.value <=> GlobDescribes(call.pattern, call.path))

(***************************************************************************)
(* Heading enricher: properties (SpecUtils)                                *)
(***************************************************************************)
\* the position of part i among the headings of the call's document
HeadingNumber(i) == Cardinality({j \in 1..i : call.html[j].kind = "heading"})

\* C22: enrichHeadings applied to its own output gives that output back; a
\* heading that already carries data-botmon-section is left as it is, and
\* every other heading gets as its section number its position among the
\* headings of the document, counted from 1.
C22_EnrichHeadingsIdempotent ==
    Returned("enrichHeadings") =>
        /\ result.applied = 2 => result.value = result.previous
        /\ result.applied = 1 =>
             \A i \in 1..Len(call.html) :
                LET before == call.html[i]
                    after == result.value[i]
                IN  IF before.kind = "heading" /\ ~HasMarker(before.attrs)
                    THEN /\ after.level = before.level
                         /\ SubSeq(after.attrs, 1, Len(before.attrs)) = before.attrs
                         /\ after.attrs[Len(before.attrs) + 1]
                              = <<"data-botmon-section", HeadingNumber(i)>>
                    ELSE after = before

\* a document with a marked heading between two unmarked ones, enriched
\* twice
C22_Witness ==
    /\ Returned("enrichHeadings") /\ result.applied = 2
    /\ call.html = <<Heading(1, <<>>), Heading(2, << <<"data-botmon-section", 7>> >>),
                     Heading(2, << <<"class", "title">> >>)>>
    /\ result.value[1].attrs[1] = <<"data-botmon-section", 1>>
    /\ result.value[2] = call.html[2]
    /\ result.value[3].attrs[2] = <<"data-botmon-section", 3>>

(***************************************************************************)
(* Schema generator: properties (SpecUtils)                                *)
(***************************************************************************)
SchemaTypeOf(pageType) ==
    CASE pageType = "product" -> "Product"
      [] pageType = "article" -> "Article"
      [] pageType = "docs" -> "TechArticle"
      [] pageType = "faq" -> "FAQPage"
      [] pageType = "how-to" -> "HowTo"
      [] OTHER -> "WebPage"

\* C23: whatever the page type and the matching rule, custom structured
\* data included, the generated schema has @context https://schema.org and
\* the @type mapped from the page type.
C23_SchemaShapeFixed ==
    Returned("generateSchema") =>
        /\ result.value["@context"] = "https://schema.org"
        /\ result.value["@type"] = SchemaTypeOf(call.pageType)

(***************************************************************************)
(* Retry engine: properties (SpecRetryFair)                                *)
(***************************************************************************)
Retrying == call # NULL /\ call.fn = "executeWithRetry" /\ result # NULL
Settled == Retrying /\ result.pc \in {"resolved", "rejected"}
Invocations == {i \in 1..Len(result.log) : result.log[i].ev = "fn"}
Waits == {i \in 1..Len(result.log) : result.log[i].ev = "sleep"}

RetrySafe ==
    Retrying =>
        LET log == result.log
            n == call.config.retryAttempts
        IN  /\ Cardinality(Invocations) <= n + 1
            \* nothing follows a success
            /\ \A i \in Invocations : log[i].outcome.ok => i = Len(log)
            \* a wait follows a failed invocation, and the call does not
            \* settle on a wait
            /\ \A i \in Waits : i > 1 /\ log[i - 1].ev = "fn"
            /\ \A i \in Invocations : i > 1 => log[i - 1].ev = "sleep"
            /\ Settled => log # <<>> /\ log[Len(log)].ev = "fn"
            /\ result.pc = "resolved" =>
                 /\ log[Len(log)].outcome.ok
                 /\ result.value = log[Len(log)].outcome.value
            /\ result.pc = "rejected" =>
                 /\ Cardinality(Invocations) = n + 1
                 /\ ~log[Len(log)].outcome.ok
                 /\ result.error = log[Len(log)].outcome.error

\* C24: with retryAttempts = n the function is invoked at most n + 1 times,
\* the call resolves with the value of the first success, waits only between
\* two invocations, rejects after n + 1 failures with the last error, and
\* always settles.
C24_RetryBoundedAndSettles == []RetrySafe /\ <>Settled

\* one failure, a wait, then a success, with two retries allowed
C24_Witness ==
    /\ Settled /\ result.pc = "resolved" /\ call.config.retryAttempts = 2
    /\ Cardinality(Invocations) = 2 /\ Cardinality(Waits) = 1

\* three failures with two retries allowed
C24_WitnessRejected ==
    /\ Settled /\ result.pc = "rejected" /\ call.config.retryAttempts = 2
    /\ Cardinality(Invocations) = 3 /\ result.error = "e2"

(***************************************************************************)
(* Analytics client: properties (SpecClient)                               *)
(***************************************************************************)
\* C25: BotMon.init returns the instance that exists, whatever config it is
\* given, until dispose(); with no instance it constructs a new one from its
\* config, or throws (no API key, blank key, ingestUrl not HTTPS) and leaves
\* no instance.
C25_InitIsSingleton ==
    (last # NULL /\ last.op = "init") =>
        IF last.before # NULL
        THEN ~last.threw /\ last.returned = last.before.id /\ singleton = last.before
        ELSE /\ last.threw <=> ConstructorError(last.config, last.env) # "none"
             /\ last.threw => singleton = NULL
             /\ ~last.threw =>
                  /\ singleton # NULL /\ singleton.id = last.returned /\ singleton.id = made
                  /\ singleton.config = FinalConfig(last.config, last.env)

\* init with another API key after a dispose and a second construction
C25_Witness ==
    /\ last # NULL /\ last.op = "init" /\ last.before # NULL /\ made = 2
    /\ Has(last.config, "apiKey") /\ last.config.apiKey # last.before.config.apiKey
    /\ last.returned = 2

\* an init that threw for an ingestUrl that is not HTTPS, after a dispose
C25_WitnessThrew ==
    /\ last # NULL /\ last.op = "init" /\ last.threw /\ made = 1
    /\ ConstructorError(last.config, last.env) = "ingestUrl must use HTTPS"

(***************************************************************************)
(* Analytics event: properties (SpecUtils)                                 *)
(***************************************************************************)
\* the event without its requestId and timestamp
Apart(event) == [k \in DOMAIN event \ {"requestId", "timestamp"} |-> event[k]]

\* the two requests of the call differ, and only in the value of a
\* sensitive parameter
TwinsDifferInSecret ==
    /\ Returned("buildEvent")
    /\ IsSensitive(call.request.url.search[call.param][1])
    /\ call.request.url.search[call.param][2] # call.value

\* C26: two requests that differ only in the value of a sensitive query
\* parameter give events that are the same apart from requestId and
\* timestamp.
C26_SensitiveValueNotInEvent ==
    TwinsDifferInSecret => Apart(result.value) = Apart(result.twin)

(***************************************************************************)
(* Middleware without an API key: properties (SpecMiddleware)              *)
(***************************************************************************)
NoApiKey == mwConfig # NULL /\ mwConfig.apiKey = ""

\* C27: with no API key the origin handler is invoked exactly once and what
\* it returned is what the requester gets, unchanged; no remote config is
\* fetched, no stage and no hook runs, no analytics and no cookie.
C27_NoKeyIsPassThrough ==
    (NoApiKey /\ pc = "done") =>
        /\ trace.handlerCalls = 1
        /\ IF delivered.kind = "response"
           THEN delivered.response \in {Numbered(OriginResponse(k), 1) : k \in OriginKinds}
           ELSE trace.originFailed
        /\ remoteConfig = NULL /\ cache = {} /\ trace.failed = {}
        /\ pl = NoPipeline /\ finalResponse = NULL
        /\ ~instance /\ bodyUsed = {}

(***************************************************************************)
(* Telemetry: properties (SpecClient)                                      *)
(***************************************************************************)
\* track returns with the work registered and still pending
TrackOnlyRegisters == TrackCall => waiting' # NULL /\ ~PromiseSettled(waiting')

\* the promise given to ctx.waitUntil has not rejected
RegisteredNeverRejects == waiting # NULL => waiting.state # "rejected"

\* the analytics block of the middleware does not touch the response
AnalyticsKeepsResponse == AnalyticsStep => finalResponse' = finalResponse

\* C28: track only registers work with ctx.waitUntil and does not wait for
\* it; a failure of that work goes to onError or is swallowed, so the
\* registered promise never rejects; and a failure while initialising or
\* calling the tracker leaves the response unchanged.
C28_TelemetryNeverFails ==
    /\ [][TrackOnlyRegisters]_vars
    /\ []RegisteredNeverRejects
    /\ [][AnalyticsKeepsResponse]_vars

(***************************************************************************)
(* appliedRules: properties (SpecMiddleware)                               *)
(***************************************************************************)
\* C29: a stage is listed in appliedRules only if it took effect: the
\* response runPipeline returns was produced or modified by it.  A
\* robots.txt or sitemap stage that returns the origin response as it is
\* (mode disabled or not recognized) is not listed.
C29_AppliedMeansEffect ==
    PipelineReturned =>
        \A i \in 1..Len(pl.appliedRules) : pl.response # context.response

(***************************************************************************)
(* Two requests in flight: properties (SpecConcurrent)                     *)
(***************************************************************************)
InFlight == flight # NULL

\* what request `id` returns follows from its own request, what the origin
\* answered to it and the bundle it resolved
OwnInputsDecide(id) ==
    LET f == flight[id]
        ctx == buildContext(f.request, Numbered(OriginResponse(f.origin), 1))
        p == runPipeline(ctx, mergeConfig(worker.managedRules, f.remoteConfig), f.stageOrigin)
    IN  (f.pc = "done" /\ f.origin # "reject") =>
            /\ f.response = p.response
            /\ f.appliedRules = p.appliedRules
            /\ f.context = [ctx EXCEPT !.pageType = p.pageType]
            /\ f.sentAs = ResolvedApiKey(worker, f.env)

\* a step of a request writes no state that outlives the request, except
\* the edge cache
OnlyCacheShared == InFlight => singleton' = singleton

\* C30: however two requests interleave, what each returns and reports is
\* decided by its own request, its own origin responses and the bundle it
\* resolved; its context and appliedRules are its own; and the requests share
\* no state but the edge cache and the agent registry.
C30_RequestsIndependent ==
    /\ [](InFlight => \A id \in RequestIds : OwnInputsDecide(id))
    /\ [][OnlyCacheShared]_vars


(***************************************************************************)
(* Remote config client: cache failures (SpecFetch)                        *)
(***************************************************************************)
\* the call just made found the Cache API absent or cache.match / the cached
\* body throwing
ReadFailed ==
    lastCall # NULL /\ lastCall.mode \in {"unavailable", "matchThrows"}

\* the call just made found the Cache API absent or cache.put throwing
WriteFailed ==
    lastCall # NULL /\ lastCall.mode \in {"unavailable", "putThrows"}

\* what the endpoint's answer alone makes fetchConfig return
AnswerValue(net) ==
    IF net.kind = "json" /\ ResponseOk(net.status) THEN net.body ELSE NULL

\* C31: edge-cache access is best-effort in fetchConfig.  When the cache is
\* unavailable or the lookup throws, the call goes on to the network fetch;
\* when the store fails, the call still returns the parsed bundle for a 2xx
\* answer and null for a 404, and the cache is left as it was.
C31_CacheIsBestEffort ==
    /\ ReadFailed =>
         /\ lastCall.requests = 1
         /\ lastCall.ret = AnswerValue(lastCall.net)
    /\ (WriteFailed /\ lastCall.requests = 1) =>
         /\ lastCall.ret = AnswerValue(lastCall.net)
         /\ ~lastCall.cacheChanged

\* the cache holds a fresh answer for the caller, yet the Cache API is
\* absent during the call: the endpoint is asked, answers 404, null comes back
C31_Witness ==
    /\ ReadFailed /\ WriteFailed
    /\ \E e \in cache :
          /\ e.url = cacheUrl(ApiBaseUrl, lastCall.hostname)
          /\ e.apiKey = lastCall.apiKey
          /\ e.text = JSONstringify(BundleA)
          /\ EntryFresh(e, now)
    /\ lastCall.requests = 1
    /\ lastCall.net.status = 404
    /\ lastCall.ret = NULL

(***************************************************************************)
(* GEO rule order: properties (SpecUtils)                                  *)
(***************************************************************************)
PatternsOf(rules) == {rules[i].urlPattern : i \in 1..Len(rules)}

\* the dashboard rules whose urlPattern no code-level rule has, in their order
RemoteOnly ==
    SelectSeq(call.dashboardRules,
              LAMBDA r : r.urlPattern \notin PatternsOf(call.sdkRules))

\* some code-level rule matches the path of the call
CodeRuleMatches ==
    \E i \in 1..Len(call.sdkRules) :
        GlobMatches(call.sdkRules[i].urlPattern, call.pathname)

\* C32: the merged geo.rules list has the code-level rules first, in their
\* order, an overridden rule replaced at its own position by a dashboard
\* rule of the same urlPattern, and then the dashboard-only rules in
\* dashboard order; when a code-level rule matches a path, the rule that
\* findMatchingRule returns for it is never a dashboard-only rule.
C32_CodeRulesFirst ==
    Returned("mergeGeoRules") =>
        LET n == Len(call.sdkRules)
        IN  /\ Len(result.value) = n + Len(RemoteOnly)
            /\ \A i \in 1..n :
                 /\ result.value[i].urlPattern = call.sdkRules[i].urlPattern
                 /\ IF call.sdkRules[i].urlPattern \in PatternsOf(call.dashboardRules)
                    THEN \E j \in 1..Len(call.dashboardRules) :
                            result.value[i] = call.dashboardRules[j]
                    ELSE result.value[i] = call.sdkRules[i]
            /\ SubSeq(result.value, n + 1, Len(result.value)) = RemoteOnly
            /\ CodeRuleMatches =>
                 /\ result.match # NULL
                 /\ result.match.urlPattern \in PatternsOf(call.sdkRules)

\* /blog/post is matched by the code-level /blog/** and by the dashboard-only
\* /blog/*; /products/* is overridden in place
C32_Witness ==
    /\ Returned("mergeGeoRules")
    /\ call.sdkRules = <<RuleB, RuleP1>>
    /\ call.dashboardRules = <<RuleBlogStar, RuleP2>>
    /\ call.pathname = <<"blog", "post">>
    /\ result.value = <<RuleB, RuleP2, RuleBlogStar>>
    /\ result.match = RuleB

(***************************************************************************)
(* GEO engine: properties (SpecUtils)                                      *)
(***************************************************************************)
\* every urlPattern of the rules of the call is a string
RulesWellTyped ==
    \A i \in 1..Len(call.config.rules) :
        call.config.rules[i].urlPattern # NumericPattern

IsHtml(response) == ContentTypeIncludes(response.contentType, "text/html")
IsText(response) ==
    \/ ContentTypeIncludes(response.contentType, "text/plain")
    \/ ContentTypeIncludes(response.contentType, "text/markdown")

\* the rule that findMatchingRule gives for the call disables the path
CallPathDisabled ==
    RuleDisabled(findMatchingRule(call.pathname, call.config.rules))

\* C33: for an HTML response without </head>, with rules whose patterns are
\* strings, applyGeoOptimization raises no error and injects neither the
\* JSON-LD script nor the summary meta tag; the body is changed by heading
\* enrichment only, and when that changes nothing the result says
\* modified = false and the body is the origin's.
C33_NoHeadIsSilentNoOp ==
    ( /\ Returned("applyGeoOptimization")
      /\ IsHtml(call.response)
      /\ ~call.response.body.doc.hasHead
      /\ RulesWellTyped ) =>
        /\ ~result.threw
        /\ result.value.response.body.doc = call.response.body.doc
        /\ result.value.response.body.edits \subseteq {"headings"}
        /\ result.value.modified <=> result.value.response.body.edits = {"headings"}
        /\ ~result.value.modified =>
             /\ result.value.response.body = call.response.body
             /\ result.value.response.headers = call.response.headers

\* a page without </head> and without headings, every switch on, a rule
\* that supplies a summary: nothing is injected
C33_Witness ==
    /\ Returned("applyGeoOptimization")
    /\ IsHtml(call.response)
    /\ ~call.response.body.doc.hasHead /\ ~call.response.body.doc.headings
    /\ call.config.injectJsonLd /\ call.config.injectSummary /\ call.config.enrichHeadings
    /\ call.config.rules = <<RuleP2>> /\ call.pathname = <<"products", "widget">>
    /\ ~result.threw
    /\ ~result.value.modified
    /\ result.value.response.body.edits = {}

\* the lines of the frontmatter block of the call, by the switches and the
\* matching rule
ExpectedFrontmatter ==
    (IF /\ call.config.injectSummary
        /\ Has(findMatchingRule(call.pathname, call.config.rules), "summary")
     THEN {"botmon:summary"} ELSE {})
    \cup {"botmon:page_type"}
    \cup (IF call.config.injectJsonLd THEN {"botmon:schema"} ELSE {})

C34_WitnessText ==
    /\ Returned("applyGeoOptimization")
    /\ call.response.contentType = "text/markdown"
    /\ call.config.injectJsonLd /\ call.config.injectSummary
    /\ call.config.rules = <<RuleP2>> /\ call.pathname = <<"products", "widget">>
    /\ ~result.threw
    /\ result.value.response.body.edits = {"botmon:summary", "botmon:page_type", "botmon:schema"}

(***************************************************************************)
(* Text responses through the pipeline: properties (SpecUtils)             *)
(***************************************************************************)
\* C40: for a text/plain or text/markdown response to an AI agent, with geo
\* enabled and a path that no rule disables (rules with string patterns),
\* runPipeline always returns a modified response: the frontmatter holds
\* the page_type line in front of the origin's text, the GEO headers are
\* set and appliedRules is <<"geo">>, whatever injectSummary and
\* injectJsonLd are.
C40_TextAlwaysModified ==
    ( /\ Returned("runPipeline")
      /\ call.context.isAiBot
      /\ call.config.geo.enabled
      /\ \A i \in 1..Len(call.config.geo.rules) :
            call.config.geo.rules[i].urlPattern # NumericPattern
      /\ ~RuleDisabled(findMatchingRule(call.context.url.pathname,
                                        call.config.geo.rules)) ) =>
        /\ result.value.appliedRules = <<"geo">>
        /\ "botmon:page_type" \in result.value.response.body.edits
        /\ result.value.response.body.doc = call.context.response.body.doc
        /\ result.value.response.by = "geo"
        /\ <<"X-BotMon-GEO", "applied">> \in result.value.response.headers
        /\ \E t \in PageTypes \cup {"generic"} :
              <<"X-BotMon-PageType", t>> \in result.value.response.headers

\* both switches off, no rule: the page_type line alone is prepended
C40_Witness ==
    /\ Returned("runPipeline")
    /\ call.context.isAiBot
    /\ ~call.config.geo.injectSummary /\ ~call.config.geo.injectJsonLd
    /\ call.config.geo.rules = <<>>
    /\ call.context.response.contentType = "text/markdown"
    /\ result.value.appliedRules = <<"geo">>
    /\ result.value.response.body.edits = {"botmon:page_type"}

(***************************************************************************)
(* AI agent detection: properties (SpecUtils)                              *)
(***************************************************************************)
\* the registry entries whose pattern the user agent of the call contains,
\* letters compared without regard to case
MatchingEntries ==
    {i \in 1..Len(AI_BOT_DEFINITIONS) :
       \E k \in 1..Len(call.userAgent) :
          LowerCase(call.userAgent[k]) = LowerCase(AI_BOT_DEFINITIONS[i].pattern)}

\* C35: detectAiBot says isAiBot exactly when the user agent contains,
\* case-insensitively, the pattern of some registry entry; it then returns
\* the name, category and tags of the first such entry in registry order;
\* an empty or unmatched user agent gives isAiBot = false and nothing else.
C35_FirstRegistryMatch ==
    Returned("detectAiBot") =>
        /\ result.value.isAiBot <=> MatchingEntries # {}
        /\ MatchingEntries # {} =>
             \E i \in MatchingEntries :
                /\ \A j \in MatchingEntries : i <= j
                /\ result.value.botName = AI_BOT_DEFINITIONS[i].name
                /\ result.value.botCategory = AI_BOT_DEFINITIONS[i].category
                /\ result.value.botTags = AI_BOT_DEFINITIONS[i].tags
        /\ MatchingEntries = {} => DOMAIN result.value = {"isAiBot"}

\* "BINGBOT gptbot" matches two entries in other spellings; GPTBot is first
\* in the registry
C35_Witness ==
    /\ Returned("detectAiBot")
    /\ call.userAgent = <<"BINGBOT", "gptbot">>
    /\ result.value.isAiBot
    /\ result.value.botName = "GPTBot"
    /\ result.value.botCategory = "ai-crawler"

(***************************************************************************)
(* onResponse hook: properties (SpecMiddleware)                            *)
(***************************************************************************)
HookFailed == trace # NULL /\ "hook" \in trace.failed

\* `response` is `original`, or the copy of it that carries the session cookie
SameOrWithCookie(response, original) ==
    \/ response = original
    \/ /\ response.by = original.by
       /\ response.status = original.status
       /\ response.body = original.body
       /\ response.headers = original.headers \cup {<<"Set-Cookie", "__botmon_sid">>}

\* C36: when the onResponse hook throws or rejects, the wrapped fetch
\* settles with the pipeline's response (with the session cookie when
\* sessions are on) and the catch block's second call of the origin handler
\* does not happen; when the hook succeeds, the response handed to
\* analytics is the one the hook returned.
C36_HookFailureKeepsPipelineResponse ==
    /\ (pc = "done" /\ HookFailed) =>
         /\ ~trace.fallback
         /\ delivered.kind = "response"
         /\ SameOrWithCookie(delivered.response, pl.response)
    /\ (pc = "analytics" /\ HookFailed) => finalResponse = pl.response
    /\ (pc = "analytics" /\ mwConfig.hook /\ ~HookFailed) =>
         \/ finalResponse.by = "hook"
         \/ finalResponse = pl.response

(***************************************************************************)
(* appliedRules: at most one name (SpecMiddleware)                         *)
(***************************************************************************)
\* C37: appliedRules of runPipeline holds at most one name: it is empty, or
\* the name of the one managed-file stage that served the request, or
\* "geo"; a managed-file stage name and "geo" never occur together.
C37_AtMostOneAppliedRule ==
    pc \notin {"idle", "start"} =>
        pl.appliedRules \in { <<>>, <<"robots-txt">>, <<"sitemap">>,
                              <<"well-known">>, <<"geo">> }

\* the managed robots.txt was served to an AI agent with geo enabled and a
\* text/plain origin response, which GEO would have rewritten
C37_Witness ==
    /\ pc = "hook"
    /\ pl.appliedRules = <<"robots-txt">>
    /\ context.isAiBot
    /\ resolvedConfig.geo.enabled
    /\ ContentTypeIncludes(context.response.contentType, "text/plain")

(***************************************************************************)
(* Managed robots.txt and sitemap in append / merge mode (SpecMiddleware)  *)
(***************************************************************************)
\* the request is for the file of stage `name`, and the resolved config has
\* that stage on in append or merge mode with content that is a string
MergingConfigured(name) ==
    /\ resolvedConfig # NULL
    /\ request.pathname = (IF name = "robots-txt" THEN <<"robots.txt">>
                           ELSE <<"sitemap.xml">>)
    /\ LET section == IF name = "robots-txt" THEN resolvedConfig.robotsTxt
                      ELSE resolvedConfig.sitemap
       IN  /\ section.enabled
           /\ section.mode \in {"append", "merge"}
           /\ Coalesce(section, "content", "") # NumericContent

ManagedContentType(name) ==
    IF name = "robots-txt" THEN "text/plain; charset=utf-8"
    ELSE "application/xml; charset=utf-8"

IsManaged200(response, name) ==
    /\ response.status = 200
    /\ response.contentType = ManagedContentType(name)
    /\ <<"X-BotMon-Managed", name>> \in response.headers

\* C38: a robots.txt or sitemap request under append or merge mode is
\* served by its stage with status 200, the managed Content-Type and the
\* X-BotMon-Managed header, whatever the origin answered and whether or not
\* managed content is configured; unless the onResponse hook replaces it,
\* that is the response the requester gets once the stage has served it.
C38_MergedFileIs200 ==
    \A name \in {"robots-txt", "sitemap"} :
        /\ (pc = "hook" /\ MergingConfigured(name)) =>
             /\ pl.handled = name
             /\ IsManaged200(pl.response, name)
        /\ ( /\ pc = "done" /\ MergingConfigured(name)
             /\ pl.handled = name /\ finalResponse = pl.response ) =>
             /\ delivered.kind = "response"
             /\ IsManaged200(delivered.response, name)

\* no remote bundle, robots.txt in merge mode from the code-level config
\* without content, the origin answers 404: the requester gets a 200
C38_Witness ==
    /\ pc = "done"
    /\ MergingConfigured("robots-txt")
    /\ pl.handled = "robots-txt"
    /\ remoteConfig = NULL
    /\ "content" \notin DOMAIN resolvedConfig.robotsTxt
    /\ context.response.status = 404
    /\ delivered.kind = "response"
    /\ IsManaged200(delivered.response, "robots-txt")
    /\ delivered.response.body.origin = Body(NoDoc)

(***************************************************************************)
(* Merging twice: properties (SpecUtils)                                   *)
(***************************************************************************)
MergedAgain(fn) == Returned(fn) /\ "again" \in DOMAIN result

\* C39: merging is idempotent in the managed argument: merging the output
\* of mergeRobotsTxt(o, m) with m again gives the same text, and likewise
\* for mergeSitemapXml.
C39_MergeIdempotent ==
    /\ MergedAgain("mergeRobotsTxt") => result.again = result.value
    /\ MergedAgain("mergeSitemapXml") => result.again = result.value
=============================================================================
